---- MODULE Spec2Model ----
(***************************************************************************)
(* Verification model of the valuation core of jpmikels/cursor_built:      *)
(*   - FinancialNormalizer  (app/backend/normalization/normalizer.py)      *)
(*   - DCFValuation         (app/backend/valuation/dcf.py)                 *)
(*   - GPCMValuation        (app/backend/valuation/gpcm.py)                *)
(*   - GTMValuation         (app/backend/valuation/gtm.py)                 *)
(*                                                                         *)
(* Numbers.  decimal.Decimal amounts are integers counting thousandths of  *)
(* a currency unit (so Decimal('0.01') is 10).  Rates are integers         *)
(* counting hundredths (0.05 is 5).  float() keeps FloatDigits significant *)
(* digits, rounding half to even (the build keeps 53 bits).                *)
(***************************************************************************)
EXTENDS Integers, Sequences, FiniteSets, TLC

VARIABLES
    mapped_data,   \* normalizer input: the list of mapped line items
    op,            \* the normalize_* method invoked last ("none" before any)
    normalized,    \* the dict it returned (NoResult before any call)
    dcf_args,      \* arguments of the calculate_dcf call (Idle when none)
    dcf_result,    \* what calculate_dcf returned or raised (NoResult before)
    comps_args,    \* arguments of the calculate_gpcm / calculate_gtm call
    comps_result,  \* what that call returned or raised (NoResult before)
    call,          \* arguments of a call of one of the other functions
    returned,      \* what that call returned or raised (NoResult before)
    db,            \* the rows of the database tables the requests work on
    requests       \* the requests in flight: where each is and what it holds

vars == <<mapped_data, op, normalized, dcf_args, dcf_result, comps_args, comps_result,
          call, returned, db, requests>>

normVars == <<mapped_data, op, normalized>>
dcfVars == <<dcf_args, dcf_result>>
compsVars == <<comps_args, comps_result>>
callVars == <<call, returned>>
sysVars == <<db, requests>>

NoResult == [kind |-> "none"]
Idle == [fn |-> "idle"]
NoDb == [tables |-> {}]
NoRequests == <<>>

-----------------------------------------------------------------------------
(* Bounds of the model                                                     *)

MaxItems == 3        \* longest mapped_data list
FloatDigits == 4     \* significant digits a float keeps
MaxYears == 3        \* longest forecast_fcf list
DfDigits == 3        \* decimal places of a discount factor
DecDigits == 2       \* decimal places a Decimal quotient keeps
MaxComps == 2        \* longest list of comparables
MulDigits == 2       \* decimal places of a multiple (a float quotient)
MaxRange == 2        \* longest wacc_range / growth_range list
MaxRequests == 3     \* requests in flight together
MaxTasks == 2        \* posts of assumptions, each with its task

-----------------------------------------------------------------------------
(* Arithmetic helpers                                                      *)

Abs(n) == IF n < 0 THEN -n ELSE n

RECURSIVE Pow10(_)
Pow10(k) == IF k = 0 THEN 1 ELSE 10 * Pow10(k - 1)

\* n / d rounded to the nearest integer, ties to even (d > 0): the rounding
\* of decimal's default context (ROUND_HALF_EVEN) and of IEEE floats.
RoundHalfEven(n, d) ==
    LET q == n \div d
        r == n % d
    IN  IF 2 * r < d THEN q
        ELSE IF 2 * r > d THEN q + 1
        ELSE IF q % 2 = 0 THEN q ELSE q + 1

\* number of low-order digits of n that do not fit in FloatDigits digits
RECURSIVE ExcessDigits(_)
ExcessDigits(n) ==
    IF Abs(n) < Pow10(FloatDigits) THEN 0 ELSE 1 + ExcessDigits(Abs(n) \div 10)

\* float(x): the nearest value with FloatDigits significant digits
Float(n) ==
    LET k == ExcessDigits(n)
    IN  RoundHalfEven(n, Pow10(k)) * Pow10(k)

RECURSIVE SumSeq(_)
SumSeq(s) == IF s = <<>> THEN 0 ELSE Head(s) + SumSeq(Tail(s))

-----------------------------------------------------------------------------
(* FinancialNormalizer                                                     *)

\* reconciliation tolerance Decimal('0.01'), in thousandths
Tolerance == 10

\* the period labels passed as `periods` (distinct, in statement order)
Periods == <<"2021", "2022">>

PeriodSet == {Periods[i] : i \in 1..Len(Periods)}

\* canonical_code of an item that has none (None / missing key / '')
NullCode == ""

\* codes of the canonical chart of accounts (self.coa_by_code)
CoaCodes ==
    {"REV_001", "COGS_001", "GP_001", "OPEX_001", "INT_002", "TAX_001", "NI_001",
     "ASSET_CURR_001", "ASSET_CURR_002", "ASSET_CURR_004", "ASSET_FA_008",
     "ASSET_OTH_001",
     "LIAB_CURR_001", "LIAB_CURR_003", "LIAB_LT_001",
     "EQUITY_001", "EQUITY_002", "EQUITY_004",
     "CF_OP_001", "CF_INV_001", "CF_FIN_001"}

\* code.startswith(prefix) on the codes of the chart
AssetCodes == {"ASSET_CURR_001", "ASSET_CURR_002", "ASSET_CURR_004", "ASSET_FA_008",
               "ASSET_OTH_001"}
LiabCodes == {"LIAB_CURR_001", "LIAB_CURR_003", "LIAB_LT_001"}
EquityCodes == {"EQUITY_001", "EQUITY_002", "EQUITY_004"}

StartsWith(code, prefix) ==
    CASE prefix = "ASSET_" -> code \in AssetCodes
      [] prefix = "LIAB_" -> code \in LiabCodes
      [] prefix = "EQUITY_" -> code \in EquityCodes
      [] OTHER -> FALSE

\* item.get('values', {}).get(period, 0), through Decimal(str(value))
ItemValue(item, period) ==
    IF period \in DOMAIN item.values THEN item.values[period] ELSE 0

\* faulty variant: any non-empty code is grouped, in the chart or not
IsMappedAnyCode(item) == item.canonical_code # NullCode

\* `if code and code in self.coa_by_code`
IsMapped(item) ==
    item.canonical_code # NullCode /\ item.canonical_code \in CoaCodes

\* faulty variant: `=` for `+=`, a later item overwrites the earlier ones
GroupStepOverwrite(grouped, item) ==
    LET code == item.canonical_code
        known == code \in DOMAIN grouped.vals
    IN  IF ~(code # NullCode /\ code \in CoaCodes) THEN grouped
        ELSE [order |-> IF known THEN grouped.order ELSE Append(grouped.order, code),
              vals |-> [c \in DOMAIN grouped.vals \cup {code} |->
                            IF c = code THEN [p \in PeriodSet |-> ItemValue(item, p)]
                            ELSE grouped.vals[c]]]

\* one pass of the grouping loop body over `item`; grouped is the insertion-
\* ordered dict, kept as the key order and the per-code values
GroupStep(grouped, item) ==
    LET code == item.canonical_code
        known == code \in DOMAIN grouped.vals
        start == IF known THEN grouped.vals[code] ELSE [p \in PeriodSet |-> 0]
        \* `for period in periods: values[period] += Decimal(str(value))`
        added == [p \in PeriodSet |-> start[p] + ItemValue(item, p)]
    IN  IF ~IsMapped(item) THEN grouped
        ELSE [order |-> IF known THEN grouped.order ELSE Append(grouped.order, code),
              vals |-> [c \in DOMAIN grouped.vals \cup {code} |->
                            IF c = code THEN added ELSE grouped.vals[c]]]

RECURSIVE GroupFrom(_, _)
GroupFrom(grouped, items) ==
    IF items = <<>> THEN grouped
    ELSE GroupFrom(GroupStep(grouped, Head(items)), Tail(items))

EmptyGrouped == [order |-> <<>>, vals |-> [c \in {} |-> 0]]

\* the `grouped` dict after the loop over mapped_data
Group(items) == GroupFrom(EmptyGrouped, items)

\* list(grouped.values())
LineItems(grouped) ==
    [i \in 1..Len(grouped.order) |->
        [code |-> grouped.order[i], values |-> grouped.vals[grouped.order[i]]]]

\* _get_value
GetValue(grouped, code) ==
    IF code \in DOMAIN grouped.vals THEN grouped.vals[code]
    ELSE [p \in PeriodSet |-> 0]

\* _calculate_is_subtotals
CalculateIsSubtotals(grouped) ==
    LET revenue == GetValue(grouped, "REV_001")
        cogs == GetValue(grouped, "COGS_001")
        gross_profit == [p \in PeriodSet |-> revenue[p] - cogs[p]]
        opex == GetValue(grouped, "OPEX_001")
        operating_income == [p \in PeriodSet |-> gross_profit[p] - opex[p]]
        interest == GetValue(grouped, "INT_002")
        tax == GetValue(grouped, "TAX_001")
    IN  [gross_profit |-> gross_profit,
         operating_income |-> operating_income,
         net_income |-> [p \in PeriodSet |-> operating_income[p] - interest[p] - tax[p]]]

\* faulty variant: total_assets leaves out net PP&E, total_equity retained earnings
CalculateBsSubtotalsShort(grouped) ==
    LET cash == GetValue(grouped, "ASSET_CURR_001")
        ar == GetValue(grouped, "ASSET_CURR_002")
        inv == GetValue(grouped, "ASSET_CURR_004")
        current_assets == [p \in PeriodSet |-> cash[p] + ar[p] + inv[p]]
        ap == GetValue(grouped, "LIAB_CURR_001")
        st_debt == GetValue(grouped, "LIAB_CURR_003")
        current_liab == [p \in PeriodSet |-> ap[p] + st_debt[p]]
        lt_debt == GetValue(grouped, "LIAB_LT_001")
        common == GetValue(grouped, "EQUITY_001")
    IN  [total_current_assets |-> current_assets,
         total_assets |-> current_assets,
         total_current_liabilities |-> current_liab,
         total_liabilities |-> [p \in PeriodSet |-> current_liab[p] + lt_debt[p]],
         total_equity |-> common]

\* _calculate_bs_subtotals
CalculateBsSubtotals(grouped) ==
    LET cash == GetValue(grouped, "ASSET_CURR_001")
        ar == GetValue(grouped, "ASSET_CURR_002")
        inv == GetValue(grouped, "ASSET_CURR_004")
        current_assets == [p \in PeriodSet |-> cash[p] + ar[p] + inv[p]]
        ppe_net == GetValue(grouped, "ASSET_FA_008")
        ap == GetValue(grouped, "LIAB_CURR_001")
        st_debt == GetValue(grouped, "LIAB_CURR_003")
        current_liab == [p \in PeriodSet |-> ap[p] + st_debt[p]]
        lt_debt == GetValue(grouped, "LIAB_LT_001")
        common == GetValue(grouped, "EQUITY_001")
        re == GetValue(grouped, "EQUITY_004")
    IN  [total_current_assets |-> current_assets,
         total_assets |-> [p \in PeriodSet |-> current_assets[p] + ppe_net[p]],
         total_current_liabilities |-> current_liab,
         total_liabilities |-> [p \in PeriodSet |-> current_liab[p] + lt_debt[p]],
         total_equity |-> [p \in PeriodSet |-> common[p] + re[p]]]

\* _calculate_cf_subtotals
CalculateCfSubtotals(grouped) ==
    LET cfo == GetValue(grouped, "CF_OP_001")
        cfi == GetValue(grouped, "CF_INV_001")
        cff == GetValue(grouped, "CF_FIN_001")
    IN  [cfo |-> cfo, cfi |-> cfi, cff |-> cff,
         net_change_cash |-> [p \in PeriodSet |-> cfo[p] + cfi[p] + cff[p]]]

\* faulty variant: the `gp[period] != 0` guard is left out
GpMismatchNoZeroGuard(grouped, p) ==
    LET calculated_gp == GetValue(grouped, "REV_001")[p] - GetValue(grouped, "COGS_001")[p]
        gp == GetValue(grouped, "GP_001")[p]
    IN  Abs(calculated_gp - gp) > Tolerance

\* the test of _reconcile_income_statement for one period
GpMismatch(grouped, p) ==
    LET calculated_gp == GetValue(grouped, "REV_001")[p] - GetValue(grouped, "COGS_001")[p]
        gp == GetValue(grouped, "GP_001")[p]
    IN  gp # 0 /\ Abs(calculated_gp - gp) > Tolerance

\* _reconcile_income_statement
ReconcileIncomeStatement(grouped) ==
    LET hit == SelectSeq(Periods, LAMBDA p : GpMismatch(grouped, p))
    IN  [i \in 1..Len(hit) |->
            LET p == hit[i]
                calculated_gp == GetValue(grouped, "REV_001")[p]
                                   - GetValue(grouped, "COGS_001")[p]
                gp == GetValue(grouped, "GP_001")[p]
            IN  [period |-> p,
                 rule |-> "gross_profit_calculation",
                 expected |-> Float(calculated_gp),
                 actual |-> Float(gp),
                 difference |-> Float(calculated_gp - gp)]]

\* sum over grouped.items() of the codes with the prefix, for one period
RECURSIVE PrefixSumFrom(_, _, _, _)
PrefixSumFrom(grouped, prefix, p, i) ==
    IF i > Len(grouped.order) THEN 0
    ELSE (IF StartsWith(grouped.order[i], prefix)
          THEN grouped.vals[grouped.order[i]][p] ELSE 0)
         + PrefixSumFrom(grouped, prefix, p, i + 1)

PrefixSum(grouped, prefix, p) == PrefixSumFrom(grouped, prefix, p, 1)

\* difference = total_assets - (total_liab + total_equity) for one period
BsDifference(grouped, p) ==
    PrefixSum(grouped, "ASSET_", p)
        - (PrefixSum(grouped, "LIAB_", p) + PrefixSum(grouped, "EQUITY_", p))

\* faulty variant: abs() is left out, an excess of liabilities goes unseen
BsImbalanceSigned(grouped, p) == BsDifference(grouped, p) > Tolerance

\* the test of _reconcile_balance_sheet for one period
BsImbalance(grouped, p) == Abs(BsDifference(grouped, p)) > Tolerance

\* _reconcile_balance_sheet
ReconcileBalanceSheet(grouped) ==
    LET hit == SelectSeq(Periods, LAMBDA p : BsImbalance(grouped, p))
    IN  [i \in 1..Len(hit) |->
            LET p == hit[i]
            IN  [period |-> p,
                 rule |-> "balance_sheet_equation",
                 total_assets |-> Float(PrefixSum(grouped, "ASSET_", p)),
                 total_liabilities |-> Float(PrefixSum(grouped, "LIAB_", p)),
                 total_equity |-> Float(PrefixSum(grouped, "EQUITY_", p)),
                 difference |-> Float(BsDifference(grouped, p))]]

\* _reconcile_cash_flow
ReconcileCashFlow(grouped) == <<>>

\* the dict returned by normalize_income_statement
NormalizeIncomeStatementResult(items) ==
    LET grouped == Group(items)
    IN  [kind |-> "dict",
         periods |-> Periods,
         line_items |-> LineItems(grouped),
         calculations |-> CalculateIsSubtotals(grouped),
         reconciliation |-> ReconcileIncomeStatement(grouped)]

\* the dict returned by normalize_balance_sheet
NormalizeBalanceSheetResult(items) ==
    LET grouped == Group(items)
    IN  [kind |-> "dict",
         periods |-> Periods,
         line_items |-> LineItems(grouped),
         calculations |-> CalculateBsSubtotals(grouped),
         reconciliation |-> ReconcileBalanceSheet(grouped)]

\* the dict returned by normalize_cash_flow
NormalizeCashFlowResult(items) ==
    LET grouped == Group(items)
    IN  [kind |-> "dict",
         periods |-> Periods,
         line_items |-> LineItems(grouped),
         calculations |-> CalculateCfSubtotals(grouped),
         reconciliation |-> ReconcileCashFlow(grouped)]

NormalizeIncomeStatement ==
    /\ op' = "normalize_income_statement"
    /\ normalized' = NormalizeIncomeStatementResult(mapped_data)
    /\ UNCHANGED <<sysVars, mapped_data, dcfVars, compsVars, callVars>>

NormalizeBalanceSheet ==
    /\ op' = "normalize_balance_sheet"
    /\ normalized' = NormalizeBalanceSheetResult(mapped_data)
    /\ UNCHANGED <<sysVars, mapped_data, dcfVars, compsVars, callVars>>

NormalizeCashFlow ==
    /\ op' = "normalize_cash_flow"
    /\ normalized' = NormalizeCashFlowResult(mapped_data)
    /\ UNCHANGED <<sysVars, mapped_data, dcfVars, compsVars, callVars>>

(* Inputs of the normalizer.  An item carries 0.010 in both periods, or     *)
(* (for some codes) 0.021 in the first period and no entry for the second; *)
(* sums of these reach differences of exactly the tolerance, just above    *)
(* it, and zero.                                                           *)
FullValues == [p \in PeriodSet |-> 10]
PartialValues == [p \in {Periods[1]} |-> 21]

\* a code that is not in the chart
NotInCoa == "UNMAPPED_999"

IncomeCodes == {"REV_001", "COGS_001", "GP_001", "OPEX_001", NotInCoa, NullCode}
BalanceCodes == {"ASSET_CURR_001", "ASSET_FA_008", "ASSET_OTH_001",
                 "LIAB_CURR_001", "LIAB_LT_001", "EQUITY_001", "EQUITY_004",
                 NotInCoa, NullCode}
CashCodes == {"CF_OP_001", "CF_INV_001", "CF_FIN_001", "REV_001", NullCode}

\* the codes whose items also come with the partial value map
PartialCodes == {"REV_001", "COGS_001", "GP_001",
                 "ASSET_CURR_001", "LIAB_LT_001", "EQUITY_004", "CF_OP_001"}

ItemsOver(codes) ==
    [canonical_code : codes, values : {FullValues}]
        \cup [canonical_code : codes \cap PartialCodes, values : {PartialValues}]

ListsOver(codes) == UNION {[1..n -> ItemsOver(codes)] : n \in 0..MaxItems}

\* mapped_data of one statement: lists of income-statement items, of
\* balance-sheet items, or of cash-flow items
InitNorm ==
    /\ mapped_data \in ListsOver(IncomeCodes) \cup ListsOver(BalanceCodes)
                          \cup ListsOver(CashCodes)
    /\ op = "none"
    /\ normalized = NoResult
    /\ dcf_args = Idle /\ dcf_result = NoResult
    /\ comps_args = Idle /\ comps_result = NoResult
    /\ call = Idle /\ returned = NoResult
    /\ db = NoDb /\ requests = NoRequests

NextNorm ==
    \/ NormalizeIncomeStatement
    \/ NormalizeBalanceSheet
    \/ NormalizeCashFlow

SpecNorm == InitNorm /\ [][NextNorm]_vars

-----------------------------------------------------------------------------
(* DCFValuation                                                            *)
(*                                                                         *)
(* Optional arguments and dict entries are sets: {} is None / a missing    *)
(* key, {v} the value v.  Cash flows, cash and debt are whole currency     *)
(* units; wacc and growth are hundredths.  A discount factor counts        *)
(* 1/DfScale; a terminal value counts 1/DecScale; present values of the    *)
(* terminal value, enterprise and equity value count 1/(DecScale*DfScale). *)

DfScale == Pow10(DfDigits)
DecScale == Pow10(DecDigits)
ValScale == DecScale * DfScale

Some(opt) == CHOOSE v \in opt : TRUE

\* dict.get(key, default)
GetOr(opt, default) == IF opt = {} THEN default ELSE Some(opt)

\* len(forecast_fcf)
ForecastYears(a) == Len(a.forecast_fcf)

\* the discount periods, counted in half years: i + 0.5 or i
DiscountPeriods(a) ==
    [i \in 1..ForecastYears(a) |-> IF a.mid_year_convention THEN 2 * i + 1 ELSE 2 * i]

\* (1 + wacc) ** -i for a whole number of years, to DfDigits places
RECURSIVE WholeYearFactor(_, _)
WholeYearFactor(wacc, i) ==
    IF i = 0 THEN DfScale
    ELSE RoundHalfEven(WholeYearFactor(wacc, i - 1) * 100, 100 + wacc)

\* the integer part of the square root of n, by Newton's iteration from x
RECURSIVE NewtonSqrt(_, _)
NewtonSqrt(n, x) ==
    LET y == (x + n \div x) \div 2
    IN  IF y >= x THEN x ELSE NewtonSqrt(n, y)

ISqrt(n) == IF n = 0 THEN 0 ELSE NewtonSqrt(n, n)

\* (1 + wacc) ** -0.5, to DfDigits places (wacc >= 0): the integer nearest
\* to DfScale * sqrt(100 / (100 + wacc)); DfScale * DfScale * 100 / m is
\* taken as whole + part / m
HalfYearFactor(wacc) ==
    LET m == 100 + wacc
        a == (DfScale * 100) \div m
        r == (DfScale * 100) % m
        whole == DfScale * a + (DfScale * r) \div m
        part == (DfScale * r) % m
        lo == ISqrt(whole)
    IN  \* the nearer of lo and lo + 1: compare (lo + 1/2)^2 with the quotient
        IF \/ whole > lo * lo + lo
           \/ whole = lo * lo + lo /\ 4 * part >= m
        THEN lo + 1 ELSE lo

\* (1 + wacc) ** -p, p in half years
DiscountFactor(wacc, halves) ==
    IF halves % 2 = 0 THEN WholeYearFactor(wacc, halves \div 2)
    ELSE RoundHalfEven(WholeYearFactor(wacc, halves \div 2) * HalfYearFactor(wacc), DfScale)

\* discount_factors
DiscountFactors(a) ==
    [i \in 1..ForecastYears(a) |-> DiscountFactor(a.wacc, DiscountPeriods(a)[i])]

\* pv_fcf, in 1/DfScale
PvFcf(a) ==
    [i \in 1..ForecastYears(a) |->
        a.forecast_fcf[i] * DiscountFactor(a.wacc, DiscountPeriods(a)[i])]

\* total_pv_fcf = sum(pv_fcf), in 1/DfScale
TotalPvFcf(a) == SumSeq(PvFcf(a))

\* which terminal-value branch is taken
TvMethod(a) ==
    IF a.exit_multiple # {} THEN "exit_multiple"
    ELSE IF a.terminal_growth_rate # {} THEN "gordon_growth"
    ELSE "missing"

\* g after `if w <= g: g = w * Decimal('0.8')`, in thousandths
GrowthUsed(a) ==
    LET g == Some(a.terminal_growth_rate)
        w == a.wacc
    IN  IF w <= g THEN w * 8 ELSE g * 10

\* w - g, the divisor of the Gordon formula, in thousandths
GordonDenominator(a) == a.wacc * 10 - GrowthUsed(a)

\* terminal_value, in 1/DecScale (the Gordon branch only when its divisor is
\* not zero)
TerminalValue(a) ==
    IF TvMethod(a) = "exit_multiple"
    THEN \* forecast.get('terminal_ebitda', forecast_fcf[-1] * 1.5) * exit_multiple
         (IF a.terminal_ebitda # {}
          THEN Some(a.terminal_ebitda) * DecScale
          ELSE a.forecast_fcf[ForecastYears(a)] * 15 * (DecScale \div 10))
             * Some(a.exit_multiple)
    ELSE \* (final_fcf * (1 + g)) / (w - g), a Decimal quotient
         LET n == a.forecast_fcf[ForecastYears(a)] * (1000 + GrowthUsed(a)) * DecScale
             d == GordonDenominator(a)
         IN  IF d > 0 THEN RoundHalfEven(n, d) ELSE -RoundHalfEven(n, -d)

\* pv_terminal_value = terminal_value * tv_discount_factor, in 1/ValScale
PvTerminalValue(a) ==
    TerminalValue(a) * DiscountFactor(a.wacc, DiscountPeriods(a)[ForecastYears(a)])

\* faulty variant: the terminal value is left out of the enterprise value
EnterpriseValueNoTv(a) == TotalPvFcf(a) * DecScale

\* enterprise_value = total_pv_fcf + pv_terminal_value, in 1/ValScale
EnterpriseValue(a) == TotalPvFcf(a) * DecScale + PvTerminalValue(a)

\* cash and debt, `historical_financials.get(key, 0)`
Cash(a) == GetOr(a.cash, 0)
Debt(a) == GetOr(a.total_debt, 0)

\* faulty variant: cash is subtracted instead of added
EquityValueCashSubtracted(a) ==
    EnterpriseValue(a) - Cash(a) * ValScale - Debt(a) * ValScale

\* equity_value = enterprise_value + cash - debt, in 1/ValScale
EquityValue(a) == EnterpriseValue(a) + Cash(a) * ValScale - Debt(a) * ValScale

\* faulty variant: the empty forecast is not caught; indexing it then fails
DcfOutcomeUnchecked(a) ==
    IF ForecastYears(a) = 0 THEN "IndexError"
    ELSE IF TvMethod(a) = "missing" THEN "error: Missing terminal value method"
    ELSE IF TvMethod(a) = "gordon_growth" /\ GordonDenominator(a) = 0
    THEN "DivisionByZero"
    ELSE "ok"

\* how the call ends: an error dict returned early, an exception out of the
\* Decimal division, or the result dict
DcfOutcome(a) ==
    IF ForecastYears(a) = 0 THEN "error: No forecast data"
    ELSE IF TvMethod(a) = "missing" THEN "error: Missing terminal value method"
    ELSE IF TvMethod(a) = "gordon_growth" /\ GordonDenominator(a) = 0
    THEN "DivisionByZero"
    ELSE "ok"

\* what calculate_dcf returns or raises
CalculateDcfResult(a) ==
    CASE DcfOutcome(a) = "error: No forecast data" ->
            [kind |-> "dict", error |-> {"No forecast data"}]
      [] DcfOutcome(a) = "error: Missing terminal value method" ->
            [kind |-> "dict", error |-> {"Missing terminal value method"}]
      [] DcfOutcome(a) = "ok" ->
            [kind |-> "dict",
             error |-> {},
             enterprise_value |-> Float(EnterpriseValue(a)),
             equity_value |-> Float(EquityValue(a)),
             pv_forecast_fcf |-> Float(TotalPvFcf(a) * DecScale),
             pv_terminal_value |-> Float(PvTerminalValue(a)),
             terminal_value |-> Float(TerminalValue(a)),
             terminal_value_method |-> TvMethod(a),
             wacc |-> a.wacc,
             forecast_years |-> ForecastYears(a),
             mid_year_convention |-> a.mid_year_convention,
             detail |-> [forecast_fcf |-> a.forecast_fcf,
                         discount_factors |-> DiscountFactors(a),
                         pv_fcf |-> [i \in 1..ForecastYears(a) |-> Float(PvFcf(a)[i])],
                         cash |-> Cash(a),
                         debt |-> Debt(a)]]
      [] OTHER ->
            [kind |-> "raised", exception |-> DcfOutcome(a)]

CalculateDcf ==
    /\ dcf_args # Idle
    /\ dcf_result' = CalculateDcfResult(dcf_args)
    /\ UNCHANGED <<sysVars, dcf_args, normVars, compsVars, callVars>>

(* Inputs of calculate_dcf *)
FcfValues == {-1, 1, 2}
WaccValues == {0, 10, 20}
GrowthValues == {0, 5, 10, 20}

ForecastLists == UNION {[1..n -> FcfValues] : n \in 0..MaxYears}

DcfCalls ==
    {a \in [fn : {"calculate_dcf"},
            forecast_fcf : ForecastLists,
            terminal_ebitda : {{}, {-4}},
            wacc : WaccValues,
            terminal_growth_rate : {{}} \cup {{g} : g \in GrowthValues},
            exit_multiple : {{}, {2}},
            mid_year_convention : BOOLEAN,
            cash : {{}, {7}},
            total_debt : {{}, {3}, {50}}] :
        \* a terminal_ebitda entry is only read in the exit-multiple branch
        a.exit_multiple = {} => a.terminal_ebitda = {}}

InitDcf ==
    /\ dcf_args \in DcfCalls
    /\ dcf_result = NoResult
    /\ mapped_data = <<>> /\ op = "none" /\ normalized = NoResult
    /\ comps_args = Idle /\ comps_result = NoResult
    /\ call = Idle /\ returned = NoResult
    /\ db = NoDb /\ requests = NoRequests

NextDcf == CalculateDcf

SpecDcf == InitDcf /\ [][NextDcf]_vars

-----------------------------------------------------------------------------
(* GPCMValuation and GTMValuation                                          *)
(*                                                                         *)
(* A metrics dict is a function from the keys it holds to whole currency   *)
(* units.  A multiple counts 1/MulScale; indicated, adjusted and concluded *)
(* values count 1/(MulScale*100); liquidity_discount is in hundredths.     *)

MulScale == Pow10(MulDigits)

\* dict.get(key): {} for None
Get(m, k) == IF k \in DOMAIN m THEN {m[k]} ELSE {}

\* truth value of an optional number: neither None nor 0
Truthy(opt) == opt # {} /\ Some(opt) # 0

\* `a or b`
OrElse(a, b) == IF Truthy(a) THEN a ELSE b

\* n / d as a float (d > 0)
FloatDiv(n, d) == Float(RoundHalfEven(n * MulScale, d))

\* sorted(data)
RECURSIVE InsertSorted(_, _)
InsertSorted(s, x) ==
    IF s = <<>> THEN <<x>>
    ELSE IF x <= Head(s) THEN <<x>> \o s
    ELSE <<Head(s)>> \o InsertSorted(Tail(s), x)

RECURSIVE Sorted(_)
Sorted(s) == IF s = <<>> THEN <<>> ELSE InsertSorted(Sorted(Tail(s)), Head(s))

\* statistics.median of a non-empty list of floats
Median(s) ==
    LET data == Sorted(s)
        n == Len(data)
    IN  IF n % 2 = 1 THEN data[(n + 1) \div 2]
        ELSE Float(RoundHalfEven(Float(data[n \div 2] + data[n \div 2 + 1]), 2))

\* statistics.mean of a non-empty list of floats
Mean(s) == Float(RoundHalfEven(SumSeq(s), Len(s)))

\* the keys of a dict filled in list order: the list without repetitions
RECURSIVE Keys(_)
Keys(s) ==
    IF s = <<>> THEN <<>>
    ELSE LET front == Keys(SubSeq(s, 1, Len(s) - 1))
             last == s[Len(s)]
         IN  IF \E i \in 1..Len(front) : front[i] = last THEN front
             ELSE Append(front, last)

\* GPCM: the numerator and denominator a multiple type reads
GpcmTypes == {"EV/Revenue", "EV/EBITDA", "P/E", "P/B"}

GpcmNumerator(type) ==
    IF type \in {"EV/Revenue", "EV/EBITDA"} THEN "enterprise_value" ELSE "market_cap"

GpcmDenominator(type) ==
    CASE type = "EV/Revenue" -> "revenue"
      [] type = "EV/EBITDA" -> "ebitda"
      [] type = "P/E" -> "net_income"
      [] type = "P/B" -> "book_value"

\* faulty variant of the next: the denominator is not required to be positive
GpcmRatioAnyDenominator(metrics, type) ==
    IF type \notin GpcmTypes THEN {}
    ELSE LET num == Get(metrics, GpcmNumerator(type))
             den == Get(metrics, GpcmDenominator(type))
         IN  IF Truthy(num) /\ Truthy(den)
             THEN {FloatDiv(Some(num), Abs(Some(den)))}
             ELSE {}

\* GPCM _calculate_multiples, one comparable: {} when it is skipped
GpcmRatio(metrics, type) ==
    IF type \notin GpcmTypes THEN {}
    ELSE LET num == Get(metrics, GpcmNumerator(type))
             den == Get(metrics, GpcmDenominator(type))
         IN  IF Truthy(num) /\ Truthy(den) /\ Some(den) > 0
             THEN {FloatDiv(Some(num), Some(den))}
             ELSE {}

\* GPCM _calculate_multiples
GpcmMultiples(comparables, type) ==
    LET used == SelectSeq(comparables, LAMBDA c : GpcmRatio(c.metrics, type) # {})
    IN  [i \in 1..Len(used) |-> Some(GpcmRatio(used[i].metrics, type))]

\* GPCM _get_subject_metric
GpcmSubjectMetric(subject_metrics, type) ==
    IF type \in GpcmTypes THEN Get(subject_metrics, GpcmDenominator(type)) ELSE {}

\* faulty variant of the next: the liquidity discount is taken twice
GpcmValuationDiscountedTwice(a, type) ==
    LET multiples == GpcmMultiples(a.comparables, type)
        subject_metric == Some(GpcmSubjectMetric(a.subject_metrics, type))
        indicated_median == subject_metric * Median(multiples)
        indicated_mean == subject_metric * Mean(multiples)
        discount_factor == 100 - 2 * a.liquidity_discount
    IN  [comparable_multiples |-> multiples,
         median_multiple |-> Median(multiples),
         mean_multiple |-> Mean(multiples),
         subject_metric |-> subject_metric,
         indicated_value_median |-> Float(indicated_median * 100),
         indicated_value_mean |-> Float(indicated_mean * 100),
         adjusted_value_median |-> Float(indicated_median * discount_factor),
         adjusted_value_mean |-> Float(indicated_mean * discount_factor),
         liquidity_discount |-> a.liquidity_discount]

\* one entry of valuations_by_multiple (GPCM)
GpcmValuation(a, type) ==
    LET multiples == GpcmMultiples(a.comparables, type)
        subject_metric == Some(GpcmSubjectMetric(a.subject_metrics, type))
        indicated_median == subject_metric * Median(multiples)
        indicated_mean == subject_metric * Mean(multiples)
        discount_factor == 100 - a.liquidity_discount
    IN  [comparable_multiples |-> multiples,
         median_multiple |-> Median(multiples),
         mean_multiple |-> Mean(multiples),
         subject_metric |-> subject_metric,
         indicated_value_median |-> Float(indicated_median * 100),
         indicated_value_mean |-> Float(indicated_mean * 100),
         adjusted_value_median |-> Float(indicated_median * discount_factor),
         adjusted_value_mean |-> Float(indicated_mean * discount_factor),
         liquidity_discount |-> a.liquidity_discount]

\* statistics.median(multiples) raises StatisticsError on an empty list: the
\* loop reaches it for every requested type
GpcmRaises(a) ==
    /\ a.comparables # <<>>
    /\ \E i \in 1..Len(a.multiples_to_use) :
           GpcmMultiples(a.comparables, a.multiples_to_use[i]) = <<>>

\* the multiple types that get an entry in valuations_by_multiple (GPCM)
GpcmValued(a) ==
    SelectSeq(Keys(a.multiples_to_use),
              LAMBDA t : GpcmSubjectMetric(a.subject_metrics, t) # {})

\* faulty variant of the next: the values before the discount are averaged
CalculateGpcmResultIndicated(a) ==
    IF a.comparables = <<>>
    THEN [kind |-> "dict", error |-> {"No comparable companies provided"}]
    ELSE IF GpcmRaises(a)
    THEN [kind |-> "raised", exception |-> "StatisticsError"]
    ELSE LET valued == GpcmValued(a)
             by_multiple == [t \in {valued[i] : i \in 1..Len(valued)} |->
                                GpcmValuation(a, t)]
             all_adjusted == [i \in 1..Len(valued) |->
                                 by_multiple[valued[i]].indicated_value_median]
         IN  [kind |-> "dict",
              error |-> {},
              concluded_value |-> IF Len(valued) > 0 THEN Mean(all_adjusted) ELSE 0,
              valuations_by_multiple |-> by_multiple,
              comparable_companies |-> a.comparables,
              liquidity_discount |-> a.liquidity_discount,
              methodology |-> "gpcm"]

\* what calculate_gpcm returns or raises
CalculateGpcmResult(a) ==
    IF a.comparables = <<>>
    THEN [kind |-> "dict", error |-> {"No comparable companies provided"}]
    ELSE IF GpcmRaises(a)
    THEN [kind |-> "raised", exception |-> "StatisticsError"]
    ELSE LET valued == GpcmValued(a)
             by_multiple == [t \in {valued[i] : i \in 1..Len(valued)} |->
                                GpcmValuation(a, t)]
             all_adjusted == [i \in 1..Len(valued) |->
                                 by_multiple[valued[i]].adjusted_value_median]
         IN  [kind |-> "dict",
              error |-> {},
              concluded_value |-> IF Len(valued) > 0 THEN Mean(all_adjusted) ELSE 0,
              valuations_by_multiple |-> by_multiple,
              comparable_companies |-> a.comparables,
              liquidity_discount |-> a.liquidity_discount,
              methodology |-> "gpcm"]

\* GTM: the multiple types and the denominator each reads
GtmTypes == {"EV/Revenue", "EV/EBITDA", "EV/Gross Profit"}

GtmSubjectKey(type) ==
    CASE type = "EV/Revenue" -> "revenue"
      [] type = "EV/EBITDA" -> "ebitda"
      [] type = "EV/Gross Profit" -> "gross_profit"

\* the denominator of a transaction: revenue or ltm_revenue, ebitda or
\* ltm_ebitda, gross_profit
GtmDenominator(metrics, type) ==
    CASE type = "EV/Revenue" -> OrElse(Get(metrics, "revenue"), Get(metrics, "ltm_revenue"))
      [] type = "EV/EBITDA" -> OrElse(Get(metrics, "ebitda"), Get(metrics, "ltm_ebitda"))
      [] type = "EV/Gross Profit" -> Get(metrics, "gross_profit")

\* faulty variant of the next: transaction_value is never read
GtmRatioNoFallback(metrics, type) ==
    IF type \notin GtmTypes THEN {}
    ELSE LET ev == Get(metrics, "enterprise_value")
             den == GtmDenominator(metrics, type)
         IN  IF Truthy(ev) /\ Truthy(den) /\ Some(den) > 0
             THEN {FloatDiv(Some(ev), Some(den))}
             ELSE {}

\* GTM _calculate_multiples, one transaction: {} when it is skipped
GtmRatio(metrics, type) ==
    IF type \notin GtmTypes THEN {}
    ELSE LET ev == OrElse(Get(metrics, "enterprise_value"),
                          Get(metrics, "transaction_value"))
             den == GtmDenominator(metrics, type)
         IN  IF Truthy(ev) /\ Truthy(den) /\ Some(den) > 0
             THEN {FloatDiv(Some(ev), Some(den))}
             ELSE {}

\* GTM _calculate_multiples
GtmMultiples(transactions, type) ==
    LET used == SelectSeq(transactions, LAMBDA c : GtmRatio(c.metrics, type) # {})
    IN  [i \in 1..Len(used) |-> Some(GtmRatio(used[i].metrics, type))]

\* GTM _get_subject_metric
GtmSubjectMetric(subject_metrics, type) ==
    IF type \in GtmTypes THEN Get(subject_metrics, GtmSubjectKey(type)) ELSE {}

\* one entry of valuations_by_multiple (GTM)
GtmValuation(a, type) ==
    LET multiples == GtmMultiples(a.comparables, type)
        subject_metric == Some(GtmSubjectMetric(a.subject_metrics, type))
    IN  [transaction_multiples |-> multiples,
         median_multiple |-> Median(multiples),
         mean_multiple |-> Mean(multiples),
         subject_metric |-> subject_metric,
         indicated_value_median |-> Float(subject_metric * Median(multiples) * 100),
         indicated_value_mean |-> Float(subject_metric * Mean(multiples) * 100)]

\* the multiple types that get an entry in valuations_by_multiple (GTM): those
\* with multiples and a subject metric that is neither None nor 0
GtmValued(a) ==
    SelectSeq(Keys(a.multiples_to_use),
              LAMBDA t : /\ GtmMultiples(a.comparables, t) # <<>>
                         /\ Truthy(GtmSubjectMetric(a.subject_metrics, t)))

\* what calculate_gtm returns
CalculateGtmResult(a) ==
    IF a.comparables = <<>>
    THEN [kind |-> "dict", error |-> {"No comparable transactions provided"}]
    ELSE LET valued == GtmValued(a)
             by_multiple == [t \in {valued[i] : i \in 1..Len(valued)} |->
                                GtmValuation(a, t)]
             all_indicated == [i \in 1..Len(valued) |->
                                  by_multiple[valued[i]].indicated_value_median]
         IN  [kind |-> "dict",
              error |-> {},
              concluded_value |-> IF Len(valued) > 0 THEN Mean(all_indicated) ELSE 0,
              valuations_by_multiple |-> by_multiple,
              comparable_transactions |-> a.comparables,
              methodology |-> "gtm"]

CalculateGpcm ==
    /\ comps_args # Idle
    /\ comps_args.fn = "calculate_gpcm"
    /\ comps_result' = CalculateGpcmResult(comps_args)
    /\ UNCHANGED <<sysVars, comps_args, normVars, dcfVars, callVars>>

CalculateGtm ==
    /\ comps_args # Idle
    /\ comps_args.fn = "calculate_gtm"
    /\ comps_result' = CalculateGtmResult(comps_args)
    /\ UNCHANGED <<sysVars, comps_args, normVars, dcfVars, callVars>>

\* _calculate_multiples of GPCMValuation called by itself
GpcmCalculateMultiples ==
    /\ call # Idle
    /\ call.fn = "GPCMValuation._calculate_multiples"
    /\ returned' = [kind |-> "list",
                    value |-> GpcmMultiples(call.comparables, call.multiple_type)]
    /\ UNCHANGED <<sysVars, call, normVars, dcfVars, compsVars>>

\* _calculate_multiples of GTMValuation called by itself
GtmCalculateMultiples ==
    /\ call # Idle
    /\ call.fn = "GTMValuation._calculate_multiples"
    /\ returned' = [kind |-> "list",
                    value |-> GtmMultiples(call.comparables, call.multiple_type)]
    /\ UNCHANGED <<sysVars, call, normVars, dcfVars, compsVars>>

(* Inputs of calculate_gpcm and calculate_gtm *)
EmptyMetrics == [k \in {} |-> 0]

ComparableMetrics ==
    {[enterprise_value |-> 12, revenue |-> 4, ebitda |-> 2,
      market_cap |-> 9, net_income |-> 3, book_value |-> 6],
     [enterprise_value |-> 12, revenue |-> 3],
     [enterprise_value |-> 10, revenue |-> 0, ebitda |-> -1],
     [transaction_value |-> 9, ltm_revenue |-> 3, ltm_ebitda |-> 2, gross_profit |-> 3],
     [enterprise_value |-> 0, transaction_value |-> 8, revenue |-> 2, ebitda |-> 4],
     [revenue |-> 5, ebitda |-> 1],
     EmptyMetrics}

Comparables == [metrics : ComparableMetrics]

ComparableLists == UNION {[1..n -> Comparables] : n \in 0..MaxComps}

SubjectMetrics ==
    {[revenue |-> 5, ebitda |-> 1, net_income |-> 1, book_value |-> 2, gross_profit |-> 3],
     [revenue |-> 5],
     [revenue |-> 0, ebitda |-> 2]}

MultipleLists ==
    {<<>>, <<"EV/Revenue">>, <<"EV/Revenue", "EV/EBITDA">>, <<"EV/EBITDA", "EV/Revenue">>,
     <<"P/E", "P/B">>, <<"EV/Gross Profit">>,
     <<"EV/Revenue", "EV/EBITDA", "EV/Gross Profit">>}

LiquidityDiscounts == {0, 25}

CompsCalls ==
    [fn : {"calculate_gpcm"}, subject_metrics : SubjectMetrics,
     comparables : ComparableLists, multiples_to_use : MultipleLists,
     liquidity_discount : LiquidityDiscounts]
    \cup
    [fn : {"calculate_gtm"}, subject_metrics : SubjectMetrics,
     comparables : ComparableLists, multiples_to_use : MultipleLists,
     liquidity_discount : {0}]

InitComps ==
    /\ comps_args \in CompsCalls
    /\ comps_result = NoResult
    /\ mapped_data = <<>> /\ op = "none" /\ normalized = NoResult
    /\ dcf_args = Idle /\ dcf_result = NoResult
    /\ call = Idle /\ returned = NoResult
    /\ db = NoDb /\ requests = NoRequests

MultiplesCalls ==
    [fn : {"GPCMValuation._calculate_multiples", "GTMValuation._calculate_multiples"},
     comparables : ComparableLists,
     multiple_type : GpcmTypes \cup GtmTypes]

InitMultiples ==
    /\ call \in MultiplesCalls
    /\ returned = NoResult
    /\ mapped_data = <<>> /\ op = "none" /\ normalized = NoResult
    /\ dcf_args = Idle /\ dcf_result = NoResult
    /\ comps_args = Idle /\ comps_result = NoResult
    /\ db = NoDb /\ requests = NoRequests

(* The valuation engines together: one pending call of calculate_dcf,      *)
(* calculate_gpcm, calculate_gtm or _calculate_multiples.                  *)
InitVal == InitDcf \/ InitComps \/ InitMultiples

NextVal ==
    \/ CalculateDcf
    \/ CalculateGpcm
    \/ CalculateGtm
    \/ GpcmCalculateMultiples
    \/ GtmCalculateMultiples

SpecVal == InitVal /\ [][NextVal]_vars

-----------------------------------------------------------------------------
(* DCFValuation.sensitivity_analysis                                       *)

\* the calculate_dcf call made for one cell of the table
SensitivityDcfCall(a, wacc, growth) ==
    [fn |-> "calculate_dcf",
     forecast_fcf |-> a.base_fcf,
     terminal_ebitda |-> {},
     wacc |-> wacc,
     terminal_growth_rate |-> {growth},
     exit_multiple |-> {},
     mid_year_convention |-> TRUE,
     cash |-> a.cash,
     total_debt |-> a.total_debt]

\* faulty variant of the next: the cell is only left empty below the growth rate
SensitivityCellStrict(a, wacc, growth) ==
    IF wacc < growth THEN {}
    ELSE LET r == CalculateDcfResult(SensitivityDcfCall(a, wacc, growth))
         IN  IF r.kind = "dict" /\ r.error = {} THEN {r.equity_value} ELSE {}

\* one cell: None when wacc <= growth, else result.get('equity_value'),
\* which is None for an error dict
SensitivityCell(a, wacc, growth) ==
    IF wacc <= growth THEN {}
    ELSE LET r == CalculateDcfResult(SensitivityDcfCall(a, wacc, growth))
         IN  IF r.kind = "dict" /\ r.error = {} THEN {r.equity_value} ELSE {}

\* a cell whose calculate_dcf call raises: the exception leaves the method
SensitivityCellRaises(a, wacc, growth) ==
    /\ wacc > growth
    /\ CalculateDcfResult(SensitivityDcfCall(a, wacc, growth)).kind = "raised"

\* sensitivity_table
SensitivityTable(a) ==
    [i \in 1..Len(a.wacc_range) |->
        [j \in 1..Len(a.growth_range) |->
            SensitivityCell(a, a.wacc_range[i], a.growth_range[j])]]

\* what sensitivity_analysis returns or raises
SensitivityAnalysisResult(a) ==
    IF \E i \in 1..Len(a.wacc_range) : \E j \in 1..Len(a.growth_range) :
           SensitivityCellRaises(a, a.wacc_range[i], a.growth_range[j])
    THEN [kind |-> "raised", exception |-> "DivisionByZero"]
    ELSE [kind |-> "dict",
          wacc_range |-> a.wacc_range,
          growth_range |-> a.growth_range,
          sensitivity_table |-> SensitivityTable(a),
          base_case |-> [wacc |-> a.base_wacc, growth |-> a.base_growth]]

SensitivityAnalysis ==
    /\ call # Idle
    /\ call.fn = "sensitivity_analysis"
    /\ returned' = SensitivityAnalysisResult(call)
    /\ UNCHANGED <<sysVars, call, normVars, dcfVars, compsVars>>

(* Inputs of sensitivity_analysis *)
BaseFcfLists == {<<>>, <<1>>, <<2, 1>>, <<-1, 2, 2>>}
SensWaccValues == {0, 10, 20}
SensGrowthValues == {0, 10}

RangesOver(values) == UNION {[1..n -> values] : n \in 0..MaxRange}

SensitivityCalls ==
    [fn : {"sensitivity_analysis"},
     base_fcf : BaseFcfLists,
     base_wacc : {10},
     base_growth : {5},
     wacc_range : RangesOver(SensWaccValues),
     growth_range : RangesOver(SensGrowthValues),
     cash : {{}, {7}},
     total_debt : {{}, {50}}]

-----------------------------------------------------------------------------
(* The concluded value of a valuation                                      *)
(*                                                                         *)
(* Method values are whole currency units, 0 for a method without a value  *)
(* (dict.get(key, 0), or the placeholder 0 of a workbook cell); a          *)
(* concluded value counts 1/WeightScale.                                   *)

WeightScale == 10

\* faulty variant of the next: the two values are averaged whatever they are
ConcludedEquityValueAveraged(dcf_equity, cca_equity) ==
    ((dcf_equity + cca_equity) * WeightScale) \div 2

\* (dcf_equity + cca_equity) / 2 if (dcf_equity and cca_equity)
\*     else dcf_equity or cca_equity
ConcludedEquityValue(dcf_equity, cca_equity) ==
    IF dcf_equity # 0 /\ cca_equity # 0
    THEN ((dcf_equity + cca_equity) * WeightScale) \div 2
    ELSE IF dcf_equity # 0 THEN dcf_equity * WeightScale
    ELSE cca_equity * WeightScale

\* the workbook formula =(B9*0.5+B10*0.3+B11*0.2)
ConcludedValueFormula(b9, b10, b11) == b9 * 5 + b10 * 3 + b11 * 2

RunValuationCalculation ==
    /\ call # Idle
    /\ call.fn = "run_valuation_calculation"
    /\ returned' = [kind |-> "dict",
                    concluded_equity_value |->
                        ConcludedEquityValue(call.dcf_equity, call.cca_equity)]
    /\ UNCHANGED <<sysVars, call, normVars, dcfVars, compsVars>>

CreateValuationSheet ==
    /\ call # Idle
    /\ call.fn = "_create_valuation_sheet"
    /\ returned' = [kind |-> "dict",
                    B13 |-> ConcludedValueFormula(call.B9, call.B10, call.B11)]
    /\ UNCHANGED <<sysVars, call, normVars, dcfVars, compsVars>>

(* Inputs: the method values *)
MethodValues == {-4, 0, 6, 10}

ConcludeCalls ==
    [fn : {"run_valuation_calculation"},
     dcf_equity : MethodValues, cca_equity : MethodValues]
    \cup
    [fn : {"_create_valuation_sheet"},
     B9 : MethodValues, B10 : MethodValues, B11 : MethodValues]

-----------------------------------------------------------------------------
(* WACCCalculator                                                          *)
(*                                                                         *)
(* Every input of calculate_wacc counts thousandths (0.045 is 45, a beta   *)
(* of 1.2 is 1200, a weight of 0.7 is 700).  The Decimal results are       *)
(* exact: cost_of_equity and after_tax_cost_of_debt count 1/RateScale^2,   *)
(* wacc counts 1/RateScale^3.                                              *)

RateScale == 1000

\* rf + (beta * erp) + size_prem + co_specific
CostOfEquity(a) ==
    a.risk_free_rate * RateScale + a.beta * a.equity_risk_premium
      + GetOr(a.size_premium, 0) * RateScale
      + GetOr(a.company_specific_premium, 0) * RateScale

\* faulty variant of the next: the tax shield is left out
AfterTaxCostOfDebtNoTax(a) == a.cost_of_debt * RateScale

\* kd * (Decimal('1') - tax)
AfterTaxCostOfDebt(a) == a.cost_of_debt * (RateScale - a.tax_rate)

\* (we * cost_of_equity) + (wd * after_tax_cost_of_debt)
Wacc(a) == a.equity_weight * CostOfEquity(a) + a.debt_weight * AfterTaxCostOfDebt(a)

\* the dict calculate_wacc returns
CalculateWaccResult(a) ==
    [kind |-> "dict",
     cost_of_equity |-> Float(CostOfEquity(a)),
     cost_of_equity_components |->
         [risk_free_rate |-> a.risk_free_rate,
          beta_times_erp |-> Float(a.beta * a.equity_risk_premium),
          size_premium |-> GetOr(a.size_premium, 0),
          company_specific_premium |-> GetOr(a.company_specific_premium, 0)],
     after_tax_cost_of_debt |-> Float(AfterTaxCostOfDebt(a)),
     wacc |-> Float(Wacc(a)),
     capital_structure |-> [equity_weight |-> a.equity_weight,
                            debt_weight |-> a.debt_weight]]

CalculateWacc ==
    /\ call # Idle
    /\ call.fn = "calculate_wacc"
    /\ returned' = CalculateWaccResult(call)
    /\ UNCHANGED <<sysVars, call, normVars, dcfVars, compsVars>>

(* Betas count 1/BetaScale, debt_to_equity counts tenths, tax_rate         *)
(* hundredths.                                                             *)

BetaScale == 100000

\* 1 + (1 - t) * de, in thousandths
LeverFactor(de, t) == 1000 + (100 - t) * de

\* faulty variant of the next: the debt is not tax-adjusted
LeveredBetaNoTax(bu, de, t) == Float(RoundHalfEven(bu * (1000 + 100 * de), 1000))

\* calculate_levered_beta: float(bu * (1 + (1 - t) * de))
LeveredBeta(bu, de, t) == Float(RoundHalfEven(bu * LeverFactor(de, t), 1000))

\* calculate_unlevered_beta: float(bl / (1 + (1 - t) * de)), the Decimal
\* quotient kept to 1/BetaScale
UnleveredBeta(bl, de, t) == Float(RoundHalfEven(bl * 1000, LeverFactor(de, t)))

CalculateLeveredBeta ==
    /\ call # Idle
    /\ call.fn = "calculate_levered_beta"
    /\ returned' = [kind |-> "float",
                    value |-> LeveredBeta(call.unlevered_beta, call.debt_to_equity,
                                          call.tax_rate)]
    /\ UNCHANGED <<sysVars, call, normVars, dcfVars, compsVars>>

CalculateUnleveredBeta ==
    /\ call # Idle
    /\ call.fn = "calculate_unlevered_beta"
    /\ returned' = [kind |-> "float",
                    value |-> UnleveredBeta(call.levered_beta, call.debt_to_equity,
                                            call.tax_rate)]
    /\ UNCHANGED <<sysVars, call, normVars, dcfVars, compsVars>>

\* the caller passes the levered beta it got back to calculate_unlevered_beta,
\* with the same D/E and tax rate; levered_from remembers the beta it started
\* from
UnleverTheLevered ==
    /\ call # Idle
    /\ call.fn = "calculate_levered_beta"
    /\ returned # NoResult
    /\ call' = [fn |-> "calculate_unlevered_beta",
                levered_beta |-> returned.value,
                debt_to_equity |-> call.debt_to_equity,
                tax_rate |-> call.tax_rate,
                levered_from |-> {call.unlevered_beta}]
    /\ returned' = NoResult
    /\ UNCHANGED <<sysVars, normVars, dcfVars, compsVars>>

(* Inputs of the WACC calculator *)
WaccCalls ==
    [fn : {"calculate_wacc"},
     risk_free_rate : {45, 31},
     equity_risk_premium : {60},
     beta : {1200, 1234},
     size_premium : {{}, {20}},
     company_specific_premium : {{}, {10}},
     cost_of_debt : {60, 57},
     tax_rate : {0, 250},
     equity_weight : {0, 400, 700, 1000},
     debt_weight : {0, 300, 1000}]

BetaValues == {80000, 99000, 100000, 123000}
DebtToEquityValues == {0, 3, 5, 10}
TaxRateValues == {0, 21, 25, 100}

BetaCalls ==
    [fn : {"calculate_levered_beta"},
     unlevered_beta : BetaValues,
     debt_to_equity : DebtToEquityValues,
     tax_rate : TaxRateValues]
    \cup
    [fn : {"calculate_unlevered_beta"},
     levered_beta : BetaValues,
     debt_to_equity : DebtToEquityValues,
     tax_rate : TaxRateValues,
     levered_from : {{}}]

-----------------------------------------------------------------------------
(* GTMValuation.filter_transactions                                        *)

\* the transactions whose industry_code is one of the codes
FilterByIndustry(transactions, industry_codes) ==
    SelectSeq(transactions,
              LAMBDA txn : /\ "industry_code" \in DOMAIN txn
                           /\ txn.industry_code \in industry_codes)

\* the transactions whose transaction_value (0 when missing) is at least
\* min_size
FilterByMinSize(transactions, min_size) ==
    SelectSeq(transactions,
              LAMBDA txn : (IF "transaction_value" \in DOMAIN txn.metrics
                            THEN txn.metrics.transaction_value
                            ELSE 0) >= min_size)

\* the transactions whose transaction_value (infinite when missing) is at
\* most max_size
FilterByMaxSize(transactions, max_size) ==
    SelectSeq(transactions,
              LAMBDA txn : /\ "transaction_value" \in DOMAIN txn.metrics
                           /\ txn.metrics.transaction_value <= max_size)

\* filter_transactions: a filter is applied when filters.get(key) is truthy
\* (a non-empty list, a non-zero number); min_date and max_date are not read
FilterTransactions(transactions, filters) ==
    LET by_industry ==
            IF "industry_codes" \in DOMAIN filters /\ filters.industry_codes # {}
            THEN FilterByIndustry(transactions, filters.industry_codes)
            ELSE transactions
        by_min ==
            IF Truthy(Get(filters, "min_size"))
            THEN FilterByMinSize(by_industry, filters.min_size)
            ELSE by_industry
        by_max ==
            IF Truthy(Get(filters, "max_size"))
            THEN FilterByMaxSize(by_min, filters.max_size)
            ELSE by_min
    IN  by_max

FilterTransactionsCall ==
    /\ call.fn = "GTMValuation.filter_transactions"
    /\ returned = NoResult
    /\ returned' = [kind |-> "list",
                    value |-> FilterTransactions(call.transactions, call.filters)]
    /\ UNCHANGED <<sysVars, call, mapped_data, op, normalized,
                   dcf_args, dcf_result, comps_args, comps_result>>

\* inputs: transactions with and without an industry code and a size, dated
\* by day number
TransactionRecords ==
    {[name |-> "a", industry_code |-> "7372", date |-> 1,
      metrics |-> [transaction_value |-> 5]],
     [name |-> "b", industry_code |-> "3571", date |-> 3,
      metrics |-> [transaction_value |-> 9]],
     [name |-> "c", date |-> 2, metrics |-> EmptyMetrics],
     [name |-> "d", industry_code |-> "7372", date |-> 2,
      metrics |-> [transaction_value |-> 0]]}

TransactionLists == UNION {[1..n -> TransactionRecords] : n \in 0..MaxComps}

\* each filter is a sequence of length 0 (omitted) or 1 (supplied)
IndustryCodeFilters == {<<>>, <<{}>>, <<{"7372"}>>}
MinSizeFilters == {<<>>, <<0>>, <<5>>}
MaxSizeFilters == {<<>>, <<0>>, <<8>>}
MinDateFilters == {<<>>, <<2>>}
MaxDateFilters == {<<>>, <<2>>}

\* the filters dict holding the supplied filters
FiltersOf(codes, min_size, max_size, min_date, max_date) ==
    LET supplied == {k \in {"industry_codes", "min_size", "max_size",
                            "min_date", "max_date"} :
                        CASE k = "industry_codes" -> codes # <<>>
                          [] k = "min_size" -> min_size # <<>>
                          [] k = "max_size" -> max_size # <<>>
                          [] k = "min_date" -> min_date # <<>>
                          [] OTHER -> max_date # <<>>}
    IN  [k \in supplied |->
            CASE k = "industry_codes" -> codes[1]
              [] k = "min_size" -> min_size[1]
              [] k = "max_size" -> max_size[1]
              [] k = "min_date" -> min_date[1]
              [] OTHER -> max_date[1]]

FilterCalls ==
    {[fn |-> "GTMValuation.filter_transactions",
      transactions |-> txns,
      filters |-> FiltersOf(c, lo, hi, from, to)] :
        txns \in TransactionLists, c \in IndustryCodeFilters,
        lo \in MinSizeFilters, hi \in MaxSizeFilters,
        from \in MinDateFilters, to \in MaxDateFilters}

-----------------------------------------------------------------------------
(* ValidationRules: validate_income_statement, validate_balance_sheet and  *)
(* validate_cash_flow over a normalized statement                          *)

\* next((item for item in line_items if item['code'] == code), None)
FirstItem(line_items, code) ==
    LET at == {i \in 1..Len(line_items) : line_items[i].code = code}
    IN  IF at = {} THEN {}
        ELSE {line_items[CHOOSE i \in at : \A j \in at : i <= j]}

\* {item['code']: item for item in line_items}.get(code)
LastItem(line_items, code) ==
    LET at == {i \in 1..Len(line_items) : line_items[i].code = code}
    IN  IF at = {} THEN {}
        ELSE {line_items[CHOOSE i \in at : \A j \in at : i >= j]}

\* faulty variant: a value of zero is reported as well
CheckNegativeItemOrZero(data, code, rule_code) ==
    LET item == FirstItem(data.line_items, code)
    IN  IF item = {} THEN <<>>
        ELSE LET hit == SelectSeq(Periods, LAMBDA p : Some(item).values[p] <= 0)
             IN  [i \in 1..Len(hit) |->
                     [rule_code |-> rule_code,
                      severity |-> "error",
                      affected_items |-> <<code>>,
                      period |-> hit[i],
                      value |-> Float(Some(item).values[hit[i]])]]

\* one issue per period in which the item `code` is negative
CheckNegativeItem(data, code, rule_code) ==
    LET item == FirstItem(data.line_items, code)
    IN  IF item = {} THEN <<>>
        ELSE LET hit == SelectSeq(Periods, LAMBDA p : Some(item).values[p] < 0)
             IN  [i \in 1..Len(hit) |->
                     [rule_code |-> rule_code,
                      severity |-> "error",
                      affected_items |-> <<code>>,
                      period |-> hit[i],
                      value |-> Float(Some(item).values[hit[i]])]]

\* _check_negative_revenue
CheckNegativeRevenue(data) == CheckNegativeItem(data, "REV_001", "NEG_REVENUE")

\* _check_negative_inventory
CheckNegativeInventory(data) ==
    CheckNegativeItem(data, "ASSET_CURR_004", "NEGATIVE_INVENTORY")

\* margin = (gp_val / rev_val) * 100, in 1/DecScale percent
Margin(gp_val, rev_val) == RoundHalfEven(gp_val * 100 * DecScale, rev_val)

\* faulty variant: a margin of exactly 95% is reported as high
CheckExtremeMarginsInclusive(data) ==
    LET rev == LastItem(data.line_items, "REV_001")
        gp == LastItem(data.line_items, "GP_001")
    IN  IF rev = {} \/ gp = {} THEN <<>>
        ELSE LET revenue == Some(rev).values
                 gross_profit == Some(gp).values
                 high(q) == gross_profit[q] * 100 >= 95 * revenue[q]
                 hit == SelectSeq(Periods,
                                  LAMBDA q : /\ revenue[q] > 0
                                             /\ (high(q) \/ gross_profit[q] < 0))
             IN  [i \in 1..Len(hit) |->
                     [rule_code |-> IF high(hit[i]) THEN "EXTREME_MARGIN_HIGH"
                                    ELSE "NEGATIVE_MARGIN",
                      severity |-> "warning",
                      affected_items |-> <<"REV_001", "GP_001">>,
                      period |-> hit[i],
                      margin |-> Float(Margin(gross_profit[hit[i]], revenue[hit[i]]))]]

\* _check_extreme_margins
CheckExtremeMargins(data) ==
    LET rev == LastItem(data.line_items, "REV_001")
        gp == LastItem(data.line_items, "GP_001")
    IN  IF rev = {} \/ gp = {} THEN <<>>
        ELSE LET revenue == Some(rev).values
                 gross_profit == Some(gp).values
                 high(q) == gross_profit[q] * 100 > 95 * revenue[q]
                 hit == SelectSeq(Periods,
                                  LAMBDA q : /\ revenue[q] > 0
                                             /\ (high(q) \/ gross_profit[q] < 0))
             IN  [i \in 1..Len(hit) |->
                     [rule_code |-> IF high(hit[i]) THEN "EXTREME_MARGIN_HIGH"
                                    ELSE "NEGATIVE_MARGIN",
                      severity |-> "warning",
                      affected_items |-> <<"REV_001", "GP_001">>,
                      period |-> hit[i],
                      margin |-> Float(Margin(gross_profit[hit[i]], revenue[hit[i]]))]]

\* faulty variant: only the first discrepancy is promoted
CheckBalanceSheetEquationFirstOnly(data) ==
    LET hit == SelectSeq(data.reconciliation,
                         LAMBDA recon : recon.rule = "balance_sheet_equation")
    IN  [i \in 1..(IF hit = <<>> THEN 0 ELSE 1) |->
            [rule_code |-> "BS_IMBALANCE",
             severity |-> "error",
             affected_items |-> <<"ASSET_*", "LIAB_*", "EQUITY_*">>,
             period |-> hit[i].period,
             difference |-> hit[i].difference]]

\* _check_balance_sheet_equation
CheckBalanceSheetEquation(data) ==
    LET hit == SelectSeq(data.reconciliation,
                         LAMBDA recon : recon.rule = "balance_sheet_equation")
    IN  [i \in 1..Len(hit) |->
            [rule_code |-> "BS_IMBALANCE",
             severity |-> "error",
             affected_items |-> <<"ASSET_*", "LIAB_*", "EQUITY_*">>,
             period |-> hit[i].period,
             difference |-> hit[i].difference]]

\* faulty variant: a total equity of exactly zero is reported as well
CheckNegativeEquityOrZero(data) ==
    IF "total_equity" \notin DOMAIN data.calculations THEN <<>>
    ELSE LET total_equity == data.calculations.total_equity
             hit == SelectSeq(Periods, LAMBDA p : total_equity[p] <= 0)
         IN  [i \in 1..Len(hit) |->
                 [rule_code |-> "NEGATIVE_EQUITY",
                  severity |-> "warning",
                  affected_items |-> <<"EQUITY_*">>,
                  period |-> hit[i],
                  value |-> Float(total_equity[hit[i]])]]

\* _check_negative_equity
CheckNegativeEquity(data) ==
    IF "total_equity" \notin DOMAIN data.calculations THEN <<>>
    ELSE LET total_equity == data.calculations.total_equity
             hit == SelectSeq(Periods, LAMBDA p : total_equity[p] < 0)
         IN  [i \in 1..Len(hit) |->
                 [rule_code |-> "NEGATIVE_EQUITY",
                  severity |-> "warning",
                  affected_items |-> <<"EQUITY_*">>,
                  period |-> hit[i],
                  value |-> Float(total_equity[hit[i]])]]

\* 'cash' in recon.get('rule', '').lower(): neither of the two rule names
\* the normalizer writes contains it
IsCashRule(rule) == rule \in {"cash_reconciliation", "cash_flow_reconciliation"}

\* _check_cash_reconciliation
CheckCashReconciliation(data) ==
    LET hit == SelectSeq(data.reconciliation, LAMBDA recon : IsCashRule(recon.rule))
    IN  [i \in 1..Len(hit) |->
            [rule_code |-> "CF_RECON_FAIL",
             severity |-> "error",
             affected_items |-> <<"CF_*">>,
             period |-> hit[i].period]]

\* required_items.get(statement_type, [])
RequiredItems(statement_type) ==
    CASE statement_type = "income_statement" -> <<"REV_001", "COGS_001", "NI_001">>
      [] statement_type = "balance_sheet" ->
             <<"ASSET_CURR_001", "LIAB_CURR_001", "EQUITY_001">>
      [] statement_type = "cash_flow" -> <<"CF_OP_001", "CF_INV_001", "CF_FIN_001">>
      [] OTHER -> <<>>

\* present_codes
PresentCodes(data) == {data.line_items[i].code : i \in 1..Len(data.line_items)}

\* faulty variant: the loop stops at the first missing code
CheckMissingItemsFirstOnly(data, statement_type) ==
    LET missing == SelectSeq(RequiredItems(statement_type),
                             LAMBDA code : code \notin PresentCodes(data))
    IN  [i \in 1..(IF missing = <<>> THEN 0 ELSE 1) |->
            [rule_code |-> "MISSING_CRITICAL_ITEM",
             severity |-> "error",
             affected_items |-> <<missing[i]>>]]

\* _check_missing_items
CheckMissingItems(data, statement_type) ==
    LET missing == SelectSeq(RequiredItems(statement_type),
                             LAMBDA code : code \notin PresentCodes(data))
    IN  [i \in 1..Len(missing) |->
            [rule_code |-> "MISSING_CRITICAL_ITEM",
             severity |-> "error",
             affected_items |-> <<missing[i]>>]]

ValidateIncomeStatement ==
    /\ call.fn = "validate_income_statement"
    /\ returned = NoResult
    /\ returned' = [kind |-> "list",
                    value |-> CheckNegativeRevenue(call.normalized_data)
                                \o CheckExtremeMargins(call.normalized_data)
                                \o CheckMissingItems(call.normalized_data,
                                                     "income_statement")]
    /\ UNCHANGED <<sysVars, call, normVars, dcfVars, compsVars>>

ValidateBalanceSheet ==
    /\ call.fn = "validate_balance_sheet"
    /\ returned = NoResult
    /\ returned' = [kind |-> "list",
                    value |-> CheckBalanceSheetEquation(call.normalized_data)
                                \o CheckNegativeEquity(call.normalized_data)
                                \o CheckNegativeInventory(call.normalized_data)
                                \o CheckMissingItems(call.normalized_data,
                                                     "balance_sheet")]
    /\ UNCHANGED <<sysVars, call, normVars, dcfVars, compsVars>>

ValidateCashFlow ==
    /\ call.fn = "validate_cash_flow"
    /\ returned = NoResult
    /\ returned' = [kind |-> "list",
                    value |-> CheckCashReconciliation(call.normalized_data)
                                \o CheckMissingItems(call.normalized_data, "cash_flow")]
    /\ UNCHANGED <<sysVars, call, normVars, dcfVars, compsVars>>

(* Inputs: the statements the normalizer returns for items that carry      *)
(* 0.010 in both periods, or -0.020 in the first and 0.200 in the second;  *)
(* a gross profit item may also carry 0.019 and 0.190, which is 95% of a   *)
(* revenue of 0.020 and of 0.200.                                          *)
LossValues == [p \in PeriodSet |-> IF p = Periods[1] THEN -20 ELSE 200]
NearValues == [p \in PeriodSet |-> IF p = Periods[1] THEN 19 ELSE 190]

IncomeRuleCodes == {"REV_001", "COGS_001", "NI_001", "GP_001"}
BalanceRuleCodes == {"ASSET_CURR_001", "ASSET_CURR_004", "ASSET_OTH_001",
                     "LIAB_CURR_001", "EQUITY_001", "EQUITY_002"}
CashRuleCodes == {"CF_OP_001", "CF_INV_001", "CF_FIN_001"}

RuleLists(codes) ==
    UNION {[1..n -> [canonical_code : codes, values : {FullValues, LossValues}]
                      \cup [canonical_code : codes \cap {"GP_001"},
                            values : {NearValues}]] :
              n \in 0..MaxItems}

ValidateCalls ==
    {[fn |-> "validate_income_statement",
      normalized_data |-> NormalizeIncomeStatementResult(items)] :
        items \in RuleLists(IncomeRuleCodes)}
    \cup
    {[fn |-> "validate_balance_sheet",
      normalized_data |-> NormalizeBalanceSheetResult(items)] :
        items \in RuleLists(BalanceRuleCodes)}
    \cup
    {[fn |-> "validate_cash_flow",
      normalized_data |-> NormalizeCashFlowResult(items)] :
        items \in RuleLists(CashRuleCodes)}

InitRules ==
    /\ call \in ValidateCalls
    /\ returned = NoResult
    /\ mapped_data = <<>> /\ op = "none" /\ normalized = NoResult
    /\ dcf_args = Idle /\ dcf_result = NoResult
    /\ comps_args = Idle /\ comps_result = NoResult
    /\ db = NoDb /\ requests = NoRequests

NextRules ==
    \/ ValidateIncomeStatement
    \/ ValidateBalanceSheet
    \/ ValidateCashFlow

SpecRules == InitRules /\ [][NextRules]_vars

-----------------------------------------------------------------------------
(* run_valuation: concurrent requests, each in its own session, against    *)
(* the table valuation_runs.  A request runs its queries and its commit as *)
(* separate steps; requests served by different processes interleave.      *)

\* the engagements table: id and tenant_id of each row
Engagements == {[id |-> 1, tenant_id |-> 1], [id |-> 2, tenant_id |-> 1]}

\* db.query(Engagement).filter(id == engagement_id, tenant_id == ...).first()
FindEngagement(engagement_id, tenant_id) ==
    {g \in Engagements : g.id = engagement_id /\ g.tenant_id = tenant_id}

\* the rows of valuation_runs of the engagement
RunsOf(runs, engagement_id) ==
    SelectSeq(runs, LAMBDA run : run.engagement_id = engagement_id)

\* (max_run.run_number + 1) if max_run else 1, max_run being the row of the
\* engagement with the largest run_number
NextRunNumber(runs, engagement_id) ==
    LET mine == RunsOf(runs, engagement_id)
        numbers == {mine[i].run_number : i \in 1..Len(mine)}
    IN  IF numbers = {} THEN 1
        ELSE (CHOOSE n \in numbers : \A m \in numbers : m <= n) + 1

\* faulty variant: the table has no unique constraint
UniqueRunNumberUnenforced(runs, row) == TRUE

\* UniqueConstraint('engagement_id', 'run_number'): the row can be inserted
UniqueRunNumber(runs, row) ==
    \A i \in 1..Len(runs) :
        ~(runs[i].engagement_id = row.engagement_id
            /\ runs[i].run_number = row.run_number)

\* the two queries of run_valuation: the engagement of the user's tenant,
\* then the run with the largest number
QueryMaxRun(r) ==
    /\ db.tables = {"valuation_runs"}
    /\ requests[r].pc = "start"
    /\ LET q == requests[r]
       IN  requests' =
               [requests EXCEPT ![r] =
                   IF FindEngagement(q.engagement_id, q.tenant_id) = {}
                   THEN [q EXCEPT !.pc = "done", !.status_code = 404]
                   ELSE [q EXCEPT !.pc = "commit",
                                  !.run_number = NextRunNumber(db.runs, q.engagement_id)]]
    /\ UNCHANGED <<db, normVars, dcfVars, compsVars, callVars>>

\* db.add(valuation_run); db.commit(): the insert fails with an
\* IntegrityError, answered with status 500, when the number is taken
CommitRun(r) ==
    /\ db.tables = {"valuation_runs"}
    /\ requests[r].pc = "commit"
    /\ LET row == [id |-> Len(db.runs) + 1,
                   engagement_id |-> requests[r].engagement_id,
                   run_number |-> requests[r].run_number,
                   status |-> "pending"]
       IN  IF UniqueRunNumber(db.runs, row)
           THEN /\ db' = [db EXCEPT !.runs = Append(@, row)]
                /\ requests' = [requests EXCEPT ![r].pc = "queue", ![r].run_id = row.id]
           ELSE /\ db' = db
                /\ requests' = [requests EXCEPT ![r].pc = "done", ![r].status_code = 500]
    /\ UNCHANGED <<normVars, dcfVars, compsVars, callVars>>

\* tasks_client.create_task succeeds and the run is returned
QueueTask(r) ==
    /\ db.tables = {"valuation_runs"}
    /\ requests[r].pc = "queue"
    /\ requests' = [requests EXCEPT ![r].pc = "done", ![r].status_code = 202]
    /\ UNCHANGED <<db, normVars, dcfVars, compsVars, callVars>>

\* tasks_client.create_task raises: the run is kept, with status FAILED
QueueTaskFails(r) ==
    /\ db.tables = {"valuation_runs"}
    /\ requests[r].pc = "queue"
    /\ db' = [db EXCEPT !.runs[requests[r].run_id].status = "failed"]
    /\ requests' = [requests EXCEPT ![r].pc = "done", ![r].status_code = 500]
    /\ UNCHANGED <<normVars, dcfVars, compsVars, callVars>>

\* inputs: requests for the two engagements, for one of them by a user of
\* another tenant, and for an engagement that does not exist
RunRequests ==
    {[engagement_id |-> 1, tenant_id |-> 1], [engagement_id |-> 2, tenant_id |-> 1],
     [engagement_id |-> 1, tenant_id |-> 2], [engagement_id |-> 3, tenant_id |-> 1]}

InitRuns ==
    /\ db = [tables |-> {"valuation_runs"}, runs |-> <<>>]
    /\ requests \in [1..MaxRequests ->
                        {[engagement_id |-> q.engagement_id, tenant_id |-> q.tenant_id,
                          pc |-> "start", run_number |-> 0, run_id |-> 0,
                          status_code |-> 0] : q \in RunRequests}]
    /\ call = Idle /\ returned = NoResult
    /\ mapped_data = <<>> /\ op = "none" /\ normalized = NoResult
    /\ dcf_args = Idle /\ dcf_result = NoResult
    /\ comps_args = Idle /\ comps_result = NoResult

NextRuns ==
    \E r \in 1..MaxRequests :
        \/ QueryMaxRun(r)
        \/ CommitRun(r)
        \/ QueueTask(r)
        \/ QueueTaskFails(r)

SpecRuns == InitRuns /\ [][NextRuns]_vars

-----------------------------------------------------------------------------
(* The validation endpoints: list_validation_issues, accept_suggestion and *)
(* override_suggestion, each request in its own session against the table  *)
(* validation_issues.  resolved_at (the time of the call) is left out.     *)

\* ValidationSeverity, in declaration order
SeverityDeclared == <<"error", "warning", "info">>

\* the member names the column stores, in string order
SeverityNames == <<"ERROR", "INFO", "WARNING">>

\* the name of a member of ValidationSeverity
SeverityName(severity) ==
    CASE severity = "error" -> "ERROR"
      [] severity = "warning" -> "WARNING"
      [] severity = "info" -> "INFO"

\* the position of x in the sequence
IndexIn(seq, x) == CHOOSE i \in 1..Len(seq) : seq[i] = x

\* what ORDER BY severity compares for an Enum column: the position in the
\* enum type where the backend has one (PostgreSQL), the stored name where
\* the column is a VARCHAR (SQLite)
SeverityKey(backend, severity) ==
    IF backend = "postgresql" THEN IndexIn(SeverityDeclared, severity)
    ELSE IndexIn(SeverityNames, SeverityName(severity))

\* the rows of the engagement, as ids
IssuesOf(issues, engagement_id) ==
    {i \in DOMAIN issues : issues[i].engagement_id = engagement_id}

\* the lists ORDER BY severity, created_at DESC can return: the rows in any
\* order that agrees with the two keys
OrderedIssues(backend, issues, ids) ==
    {list \in [1..Cardinality(ids) -> ids] :
        /\ \A a, b \in 1..Cardinality(ids) : a # b => list[a] # list[b]
        /\ \A a, b \in 1..Cardinality(ids) :
               a < b =>
                   LET x == issues[list[a]]
                       y == issues[list[b]]
                       kx == SeverityKey(backend, x.severity)
                       ky == SeverityKey(backend, y.severity)
                   IN  kx < ky \/ (kx = ky /\ x.created_at >= y.created_at)}

\* list_validation_issues
ListValidationIssues(r) ==
    /\ db.tables = {"validation_issues"}
    /\ requests[r].pc = "start"
    /\ requests[r].endpoint = "list_validation_issues"
    /\ LET q == requests[r]
           ids == IssuesOf(db.issues, q.engagement_id)
           count(severity) == Cardinality({i \in ids : db.issues[i].severity = severity})
       IN  IF FindEngagement(q.engagement_id, q.tenant_id) = {}
           THEN requests' = [requests EXCEPT ![r].pc = "done", ![r].status_code = 404]
           ELSE \E list \in OrderedIssues(db.backend, db.issues, ids) :
                    requests' =
                        [requests EXCEPT
                            ![r].pc = "done",
                            ![r].status_code = 200,
                            ![r].response =
                                [issues |-> [k \in 1..Len(list) |-> db.issues[list[k]]],
                                 total |-> Len(list),
                                 errors |-> count("error"),
                                 warnings |-> count("warning"),
                                 info |-> count("info"),
                                 unresolved |->
                                     Cardinality({i \in ids : ~db.issues[i].is_resolved})]]
    /\ UNCHANGED <<db, normVars, dcfVars, compsVars, callVars>>

\* the two queries of accept_suggestion and of override_suggestion: the
\* engagement, then the issue, which the session keeps as loaded
QueryIssue(r) ==
    /\ db.tables = {"validation_issues"}
    /\ requests[r].pc = "start"
    /\ requests[r].endpoint \in {"accept_suggestion", "override_suggestion"}
    /\ LET q == requests[r]
           found == {i \in IssuesOf(db.issues, q.engagement_id) : i = q.issue_id}
       IN  requests' =
               [requests EXCEPT ![r] =
                   IF FindEngagement(q.engagement_id, q.tenant_id) = {} \/ found = {}
                   THEN [q EXCEPT !.pc = "done", !.status_code = 404]
                   ELSE [q EXCEPT !.pc = "loaded", !.issue = {db.issues[q.issue_id]}]]
    /\ UNCHANGED <<db, normVars, dcfVars, compsVars, callVars>>

\* resolution_action and resolution_notes an endpoint writes
ResolutionOf(q) ==
    IF q.endpoint = "accept_suggestion"
    THEN [action |-> "accepted", notes |-> <<q.notes>>]
    ELSE [action |-> "overridden", notes |-> <<"Action", q.action, "Notes", q.notes>>]

\* issue.is_resolved, of the row as the session loaded it
IsResolved(q) == Some(q.issue).is_resolved

\* the rest of accept_suggestion and of override_suggestion: the test of
\* is_resolved, the assignments and the commit
ResolveIssue(r) ==
    /\ db.tables = {"validation_issues"}
    /\ requests[r].pc = "loaded"
    /\ LET q == requests[r]
       IN  IF IsResolved(q)
           THEN /\ requests' = [requests EXCEPT ![r].pc = "done", ![r].status_code = 400]
                /\ db' = db
           ELSE /\ requests' = [requests EXCEPT ![r].pc = "done", ![r].status_code = 200]
                /\ db' = [db EXCEPT
                             !.issues[q.issue_id].is_resolved = TRUE,
                             !.issues[q.issue_id].resolution_action = ResolutionOf(q).action,
                             !.issues[q.issue_id].resolution_notes = ResolutionOf(q).notes,
                             !.issues[q.issue_id].resolved_by = q.user_id,
                             !.resolutions[q.issue_id] = @ + 1]
    /\ UNCHANGED <<normVars, dcfVars, compsVars, callVars>>

\* inputs: three unresolved issues of engagement 1, the last two created at
\* the same time; db.resolutions counts the commits that resolved each
SeverityLists ==
    {<<"warning", "info", "error">>, <<"info", "error", "warning">>,
     <<"error", "info", "info">>, <<"warning", "warning", "warning">>}

IssueTable(severities) ==
    [i \in 1..Len(severities) |->
        [id |-> i, engagement_id |-> 1, severity |-> severities[i],
         created_at |-> IF i = 1 THEN 1 ELSE 2,
         is_resolved |-> FALSE, resolution_action |-> "", resolution_notes |-> <<>>,
         resolved_by |-> 0]]

IssueRequests ==
    {[endpoint |-> "list_validation_issues", issue_id |-> 0, user_id |-> 1,
      notes |-> "", action |-> ""],
     [endpoint |-> "accept_suggestion", issue_id |-> 1, user_id |-> 1,
      notes |-> "ok", action |-> ""],
     [endpoint |-> "override_suggestion", issue_id |-> 1, user_id |-> 2,
      notes |-> "no", action |-> "fix"],
     [endpoint |-> "accept_suggestion", issue_id |-> 9, user_id |-> 2,
      notes |-> "ok", action |-> ""]}

InitIssues ==
    /\ \E backend \in {"sqlite", "postgresql"}, severities \in SeverityLists :
           db = [tables |-> {"validation_issues"},
                 backend |-> backend,
                 issues |-> IssueTable(severities),
                 resolutions |-> [i \in 1..Len(severities) |-> 0]]
    /\ requests \in [1..MaxRequests ->
                        {[endpoint |-> q.endpoint, engagement_id |-> 1, tenant_id |-> 1,
                          issue_id |-> q.issue_id, user_id |-> q.user_id,
                          notes |-> q.notes, action |-> q.action,
                          pc |-> "start", issue |-> {}, status_code |-> 0,
                          response |-> NoResult] : q \in IssueRequests}]
    /\ call = Idle /\ returned = NoResult
    /\ mapped_data = <<>> /\ op = "none" /\ normalized = NoResult
    /\ dcf_args = Idle /\ dcf_result = NoResult
    /\ comps_args = Idle /\ comps_result = NoResult

NextIssues ==
    \E r \in 1..MaxRequests :
        \/ ListValidationIssues(r)
        \/ QueryIssue(r)
        \/ ResolveIssue(r)

SpecIssues == InitIssues /\ [][NextIssues]_vars

-----------------------------------------------------------------------------
(* CCAEngine.calculate_cca.  Amounts are in hundredths, multiples in       *)
(* tenths; every product and sum is a float.                               *)

CcaMultipleScale == 10

\* max(history.keys())
LatestYear(history) == CHOOSE y \in DOMAIN history : \A z \in DOMAIN history : z <= y

\* financial_data.get(metric, {}): the empty dict when the metric is missing
History(financial_data, metric) ==
    IF metric \in DOMAIN financial_data THEN financial_data[metric]
    ELSE <<>>

\* float(assumptions.get(key, default))
CcaMultiple(assumptions, key, default) ==
    IF key \in DOMAIN assumptions THEN assumptions[key] ELSE default

\* latest_ebitda * multiple
CcaEnterpriseValue(latest_ebitda, multiple) ==
    Float(RoundHalfEven(latest_ebitda * multiple, CcaMultipleScale))

\* faulty variant: the debt is not subtracted
CcaEquityValueNoDebt(ev, cash, debt) == Float(ev + cash)

\* ev + cash - debt
CcaEquityValue(ev, cash, debt) == Float(Float(ev + cash) - debt)

\* calculate_cca
CalculateCcaResult(financial_data, assumptions) ==
    LET multiple_min == CcaMultiple(assumptions, "ebitda_multiple_min", 50)
        multiple_median == CcaMultiple(assumptions, "ebitda_multiple_median", 70)
        multiple_max == CcaMultiple(assumptions, "ebitda_multiple_max", 90)
        ebitda_history == History(financial_data, "ebitda")
        revenue_history == History(financial_data, "revenue")
        from_ebitda == DOMAIN ebitda_history # {}
        latest_year == IF from_ebitda THEN LatestYear(ebitda_history)
                       ELSE LatestYear(revenue_history)
        latest_ebitda == IF from_ebitda THEN ebitda_history[latest_year]
                         ELSE Float(RoundHalfEven(revenue_history[latest_year] * 20, 100))
        cash == GetOr(Get(History(financial_data, "cash"), latest_year), 0)
        debt == GetOr(Get(History(financial_data, "debt"), latest_year), 0)
        ev_min == CcaEnterpriseValue(latest_ebitda, multiple_min)
        ev_median == CcaEnterpriseValue(latest_ebitda, multiple_median)
        ev_max == CcaEnterpriseValue(latest_ebitda, multiple_max)
    IN  IF ~from_ebitda /\ DOMAIN revenue_history = {}
        THEN [kind |-> "raised", error |-> "ValueError"]
        ELSE [kind |-> "dict",
              ev_min |-> ev_min, ev_median |-> ev_median, ev_max |-> ev_max,
              equity_value_min |-> CcaEquityValue(ev_min, cash, debt),
              equity_value_median |-> CcaEquityValue(ev_median, cash, debt),
              equity_value_max |-> CcaEquityValue(ev_max, cash, debt),
              ebitda_used |-> latest_ebitda, ebitda_year |-> latest_year,
              multiple_min |-> multiple_min, multiple_median |-> multiple_median,
              multiple_max |-> multiple_max,
              cash |-> cash, debt |-> debt]

CalculateCca ==
    /\ call.fn = "calculate_cca"
    /\ returned = NoResult
    /\ returned' = CalculateCcaResult(call.financial_data, call.assumptions)
    /\ UNCHANGED <<sysVars, call, normVars, dcfVars, compsVars>>

\* inputs: per metric, no entry ({}), or one history: empty, of one year
\* or of two years
EmptyHistory == [y \in {} |-> 0]

CcaHistories(metric) ==
    CASE metric = "ebitda" ->
             {{}, {EmptyHistory},
              {[y \in {2022, 2023} |-> IF y = 2022 THEN 10000 ELSE 12345]},
              {[y \in {2023} |-> -5000]}}
      [] metric = "revenue" ->
             {{}, {[y \in {2023} |-> 50000]},
              {[y \in {2022, 2024} |-> IF y = 2022 THEN 40000 ELSE 100125]}}
      [] metric = "cash" -> {{}, {[y \in {2023} |-> 3000]}}
      [] metric = "debt" -> {{}, {[y \in {2023, 2024} |-> IF y = 2023 THEN 4500 ELSE 1000]}}

\* the dict of the metrics that have an entry
FinancialData(ebitda, revenue, cash, debt) ==
    LET given == [ebitda |-> ebitda, revenue |-> revenue, cash |-> cash, debt |-> debt]
    IN  [m \in {k \in DOMAIN given : given[k] # {}} |-> Some(given[m])]

CcaCalls ==
    {[fn |-> "calculate_cca",
      financial_data |-> FinancialData(ebitda, revenue, cash, debt),
      assumptions |-> assumptions] :
        ebitda \in CcaHistories("ebitda"), revenue \in CcaHistories("revenue"),
        cash \in CcaHistories("cash"), debt \in CcaHistories("debt"),
        assumptions \in {[k \in {} |-> 0],
                         [ebitda_multiple_min |-> 40, ebitda_multiple_median |-> 65,
                          ebitda_multiple_max |-> 85]}}

-----------------------------------------------------------------------------
(* The remaining functions: one pending call of one of them                *)

InitCalls ==
    /\ call \in SensitivityCalls \cup ConcludeCalls \cup WaccCalls \cup BetaCalls
                \cup FilterCalls \cup CcaCalls
    /\ returned = NoResult
    /\ mapped_data = <<>> /\ op = "none" /\ normalized = NoResult
    /\ dcf_args = Idle /\ dcf_result = NoResult
    /\ comps_args = Idle /\ comps_result = NoResult
    /\ db = NoDb /\ requests = NoRequests

NextCalls ==
    \/ SensitivityAnalysis
    \/ RunValuationCalculation
    \/ CreateValuationSheet
    \/ CalculateWacc
    \/ CalculateLeveredBeta
    \/ CalculateUnleveredBeta
    \/ UnleverTheLevered
    \/ FilterTransactionsCall
    \/ CalculateCca

SpecCalls == InitCalls /\ [][NextCalls]_vars

-----------------------------------------------------------------------------
(* Properties of the normalizer                                            *)

\* the exact per-period total of the items at the indices I
RECURSIVE SumIdx(_, _, _)
SumIdx(items, I, p) ==
    IF I = {} THEN 0
    ELSE LET i == CHOOSE j \in I : TRUE
         IN  ItemValue(items[i], p) + SumIdx(items, I \ {i}, p)

\* the exact total, in period p, of the input items whose code is in codes
CodeTotal(items, codes, p) ==
    SumIdx(items, {i \in 1..Len(items) : items[i].canonical_code \in codes}, p)

\* the records of a reconciliation list that are about period p
RecordsFor(reconciliation, p) ==
    {i \in 1..Len(reconciliation) : reconciliation[i].period = p}

\* the value a returned line_items list holds for code c in period p
\* (0 when the list has no entry for c)
LineValue(line_items, c, p) ==
    IF \E i \in 1..Len(line_items) : line_items[i].code = c
    THEN line_items[CHOOSE i \in 1..Len(line_items) : line_items[i].code = c].values[p]
    ELSE 0

\* the input with items i and i+1 exchanged
SwapAt(items, i) ==
    [j \in 1..Len(items) |->
        IF j = i THEN items[i + 1] ELSE IF j = i + 1 THEN items[i] ELSE items[j]]

\* C1: normalize_balance_sheet reports, for every period p, exactly one
\* 'balance_sheet_equation' discrepancy when the total of all ASSET_ codes
\* differs from the total of all LIAB_ codes plus the total of all EQUITY_
\* codes by more than 0.01 in p, and none otherwise.
C1_BalanceSheetReconciliation ==
    op = "normalize_balance_sheet" =>
        \A p \in PeriodSet :
            LET diff == CodeTotal(mapped_data, AssetCodes, p)
                          - (CodeTotal(mapped_data, LiabCodes, p)
                               + CodeTotal(mapped_data, EquityCodes, p))
                recs == RecordsFor(normalized.reconciliation, p)
            IN  /\ Cardinality(recs) = (IF Abs(diff) > Tolerance THEN 1 ELSE 0)
                /\ \A i \in recs :
                       normalized.reconciliation[i].rule = "balance_sheet_equation"

\* a balance sheet with assets and liabilities that balances in 2022 and is
\* off by more than the tolerance in 2021: one discrepancy, for 2021
C1_Witness ==
    /\ op = "normalize_balance_sheet"
    /\ CodeTotal(mapped_data, AssetCodes, "2022") = 10
    /\ CodeTotal(mapped_data, LiabCodes, "2022") = 10
    /\ Abs(CodeTotal(mapped_data, AssetCodes, "2021")
             - CodeTotal(mapped_data, LiabCodes, "2021")) > Tolerance
    /\ Len(normalized.reconciliation) = 1
    /\ normalized.reconciliation[1].period = "2021"

\* C2 as stated: normalize_income_statement reports a gross-profit
\* discrepancy for p exactly when revenue - cogs differs from the grouped
\* GP_001 value by more than 0.01 (here only for inputs that carry a GP_001
\* item).
C2_AsStated ==
    (op = "normalize_income_statement"
       /\ \E i \in 1..Len(mapped_data) : mapped_data[i].canonical_code = "GP_001") =>
        \A p \in PeriodSet :
            LET computed == CodeTotal(mapped_data, {"REV_001"}, p)
                              - CodeTotal(mapped_data, {"COGS_001"}, p)
                direct == CodeTotal(mapped_data, {"GP_001"}, p)
            IN  (RecordsFor(normalized.reconciliation, p) # {})
                    <=> (Abs(computed - direct) > Tolerance)

\* C2 amended: a gross-profit discrepancy record {period, expected, actual,
\* difference} is reported for p exactly when the grouped GP_001 value of p
\* is not zero and revenue - cogs differs from it by more than 0.01; there is
\* at most one per period, with expected = computed, actual = direct and
\* difference = computed - direct (as floats).
C2_GrossProfitReconciliation ==
    op = "normalize_income_statement" =>
        \A p \in PeriodSet :
            LET computed == CodeTotal(mapped_data, {"REV_001"}, p)
                              - CodeTotal(mapped_data, {"COGS_001"}, p)
                direct == CodeTotal(mapped_data, {"GP_001"}, p)
                recs == RecordsFor(normalized.reconciliation, p)
            IN  /\ Cardinality(recs) =
                       (IF direct # 0 /\ Abs(computed - direct) > Tolerance THEN 1 ELSE 0)
                /\ \A i \in recs :
                       /\ normalized.reconciliation[i].expected = Float(computed)
                       /\ normalized.reconciliation[i].actual = Float(direct)
                       /\ normalized.reconciliation[i].difference = Float(computed - direct)

\* revenue 0.010, cogs 0.021 and a direct gross profit of 0.010 in 2021, all
\* three at 0.010 / 0 / 0.010 in 2022: one record, for 2021, of difference
\* -0.021
C2_Witness ==
    /\ op = "normalize_income_statement"
    /\ CodeTotal(mapped_data, {"REV_001"}, "2021") = 10
    /\ CodeTotal(mapped_data, {"COGS_001"}, "2021") = 21
    /\ CodeTotal(mapped_data, {"GP_001"}, "2021") = 10
    /\ Len(normalized.reconciliation) = 1
    /\ normalized.reconciliation[1].period = "2021"
    /\ normalized.reconciliation[1].expected = -11
    /\ normalized.reconciliation[1].actual = 10
    /\ normalized.reconciliation[1].difference = -21

\* C3: the grouped value of every chart code c in every period p is the exact
\* sum, over the input items whose canonical_code is c, of their value for p
\* (a missing period counting 0); a code has at most one line item; and the
\* grouped values do not change when two neighbouring items are exchanged
\* (hence under any reordering).  The values being a function of the input
\* alone, a second run returns the same ones.
C3_GroupingExact ==
    op # "none" =>
        /\ \A c \in CoaCodes : \A p \in PeriodSet :
               LineValue(normalized.line_items, c, p) = CodeTotal(mapped_data, {c}, p)
        /\ \A i, j \in 1..Len(normalized.line_items) :
               normalized.line_items[i].code = normalized.line_items[j].code => i = j
        /\ \A c \in CoaCodes :
               (\E i \in 1..Len(mapped_data) : mapped_data[i].canonical_code = c)
                   <=> (\E i \in 1..Len(normalized.line_items) :
                            normalized.line_items[i].code = c)
        /\ \A k \in 1..(Len(mapped_data) - 1) :
               {LineItems(Group(SwapAt(mapped_data, k)))[i] :
                    i \in 1..Len(LineItems(Group(SwapAt(mapped_data, k))))}
                 = {normalized.line_items[i] : i \in 1..Len(normalized.line_items)}

\* three items under one code, with different value maps
C3_Witness ==
    /\ op # "none"
    /\ Len(mapped_data) = 3
    /\ \A i \in 1..3 : mapped_data[i].canonical_code = "REV_001"
    /\ mapped_data[1].values # mapped_data[2].values
    /\ Len(normalized.line_items) = 1
    /\ normalized.line_items[1].values["2021"] = 41
    /\ normalized.line_items[1].values["2022"] = 20

\* the items the grouping keeps
Kept(items) ==
    SelectSeq(items, LAMBDA it : it.canonical_code \in CoaCodes \ {NullCode})

\* C4: items whose canonical_code is null or not in the chart are dropped:
\* the call returns (never fails) exactly what it returns for the input
\* without those items - line items, subtotals and reconciliation list.
C4_UnmappedDropped ==
    op # "none" =>
        /\ normalized.kind = "dict"
        /\ normalized =
               (CASE op = "normalize_income_statement" ->
                        NormalizeIncomeStatementResult(Kept(mapped_data))
                  [] op = "normalize_balance_sheet" ->
                        NormalizeBalanceSheetResult(Kept(mapped_data))
                  [] op = "normalize_cash_flow" ->
                        NormalizeCashFlowResult(Kept(mapped_data)))
        /\ \A i \in 1..Len(normalized.line_items) :
               normalized.line_items[i].code \in CoaCodes

\* an input holding a null-coded item, an item outside the chart and a
\* mapped item: one line item comes back
C4_Witness ==
    /\ op # "none"
    /\ \E i, j, k \in 1..Len(mapped_data) :
           /\ mapped_data[i].canonical_code = NullCode
           /\ mapped_data[j].canonical_code = NotInCoa
           /\ mapped_data[k].canonical_code \in CoaCodes
    /\ Len(normalized.line_items) = 1

-----------------------------------------------------------------------------
(* Properties of the valuation engines                                     *)

\* a calculate_gpcm call with comparables has returned or raised
GpcmCalled ==
    /\ comps_result # NoResult
    /\ comps_args.fn = "calculate_gpcm"
    /\ comps_args.comparables # <<>>

\* no comparable of the call yields a valid ratio for type t: none has the
\* numerator together with a strictly positive denominator
NoValidRatio(t) ==
    \A j \in 1..Len(comps_args.comparables) :
        GpcmRatio(comps_args.comparables[j].metrics, t) = {}

\* C6 as stated: calculate_gpcm with a non-empty comparables list never
\* fails; every requested multiple type without a valid ratio is left out of
\* valuations_by_multiple and a normal result is returned.
C6_AsStated ==
    GpcmCalled =>
        /\ comps_result.kind = "dict"
        /\ comps_result.error = {}
        /\ \A i \in 1..Len(comps_args.multiples_to_use) :
               NoValidRatio(comps_args.multiples_to_use[i]) =>
                   comps_args.multiples_to_use[i]
                       \notin DOMAIN comps_result.valuations_by_multiple

GordonCalled ==
    /\ dcf_result # NoResult
    /\ dcf_args.forecast_fcf # <<>>
    /\ dcf_args.exit_multiple = {}
    /\ dcf_args.terminal_growth_rate # {}

\* the Gordon-growth terminal value FCF_final * (1 + g) / (wacc - g) of the
\* call, for g in thousandths: the returned float is the float of the
\* quotient to DecDigits places (wacc * 10 > g)
IsGordonValue(v, g) ==
    LET final == dcf_args.forecast_fcf[Len(dcf_args.forecast_fcf)]
        n == final * (1000 + g) * DecScale
        d == dcf_args.wacc * 10 - g
    IN  \E q \in {n \div d, n \div d + 1} :
            /\ 2 * Abs(q * d - n) <= d
            /\ v = Float(q)

\* C8 as stated: in Gordon-growth mode, when wacc <= g the growth used is
\* g' = 0.8 * wacc, the divisor wacc - g' is strictly positive and the
\* returned terminal_value is FCF_final * (1 + g') / (wacc - g'); when
\* wacc > g it is FCF_final * (1 + g) / (wacc - g).
C8_AsStated ==
    GordonCalled =>
        LET g == Some(dcf_args.terminal_growth_rate) * 10
            w == dcf_args.wacc * 10
            used == IF w <= g THEN (w * 8) \div 10 ELSE g
        IN  /\ w - used > 0
            /\ dcf_result.kind = "dict"
            /\ dcf_result.error = {}
            /\ IsGordonValue(dcf_result.terminal_value, used)

\* every forecast cash flow of the call is strictly positive
AllFcfPositive ==
    \A i \in 1..Len(dcf_args.forecast_fcf) : dcf_args.forecast_fcf[i] > 0

\* C9 as stated: with wacc > g > 0 and every forecast FCF strictly positive,
\* enterprise_value and equity_value are both strictly positive
\* (Gordon-growth mode).
C9_AsStated ==
    (/\ GordonCalled
     /\ dcf_args.wacc > Some(dcf_args.terminal_growth_rate)
     /\ Some(dcf_args.terminal_growth_rate) > 0
     /\ AllFcfPositive) =>
        /\ dcf_result.kind = "dict"
        /\ dcf_result.error = {}
        /\ dcf_result.enterprise_value > 0
        /\ dcf_result.equity_value > 0

\* C9 amended: in Gordon-growth mode, with wacc > g > 0 and every forecast
\* FCF strictly positive, enterprise_value is strictly positive; equity_value
\* is strictly positive exactly when total_debt < enterprise value + cash, in
\* particular whenever total_debt <= cash.
C9_PositiveValues ==
    (/\ GordonCalled
     /\ dcf_args.wacc > Some(dcf_args.terminal_growth_rate)
     /\ Some(dcf_args.terminal_growth_rate) > 0
     /\ AllFcfPositive) =>
        /\ dcf_result.kind = "dict"
        /\ dcf_result.error = {}
        /\ dcf_result.enterprise_value > 0
        /\ (dcf_result.detail.debt <= dcf_result.detail.cash
               => dcf_result.equity_value > 0)
        /\ (dcf_result.equity_value > 0
               <=> dcf_result.detail.debt * ValScale
                       < EnterpriseValue(dcf_args) + dcf_result.detail.cash * ValScale)

\* three positive cash flows at wacc 0.10 and growth 0.05: with debt above
\* cash the equity value is still positive
C9_Witness ==
    /\ GordonCalled
    /\ dcf_args.wacc = 10
    /\ dcf_args.terminal_growth_rate = {5}
    /\ dcf_args.forecast_fcf = <<1, 2, 2>>
    /\ dcf_args.cash = {}
    /\ dcf_args.total_debt = {3}
    /\ dcf_result.kind = "dict"
    /\ dcf_result.enterprise_value > 0
    /\ dcf_result.equity_value > 0
    /\ dcf_result.equity_value < dcf_result.enterprise_value

\* a calculate_dcf call has returned its result dict
DcfReturned ==
    /\ dcf_result # NoResult
    /\ dcf_result.kind = "dict"
    /\ dcf_result.error = {}

\* C10 as stated: the returned enterprise_value is the sum of the returned
\* pv_forecast_fcf and pv_terminal_value, and the returned equity_value is
\* the returned enterprise_value + cash - total_debt.
C10_AsStated ==
    DcfReturned =>
        /\ dcf_result.enterprise_value =
               dcf_result.pv_forecast_fcf + dcf_result.pv_terminal_value
        /\ dcf_result.equity_value =
               dcf_result.enterprise_value
                 + (Cash(dcf_args) - Debt(dcf_args)) * ValScale

\* the larger of two magnitudes
MaxAbs(x, y) == IF Abs(x) >= Abs(y) THEN Abs(x) ELSE Abs(y)

\* half a unit in the last place of a float of magnitude m, rounded up
HalfUlp(m) == m \div (2 * Pow10(FloatDigits - 1)) + 1

\* C10 amended: the identities hold for the Decimal values the result is
\* made of - the present value of the forecast is the sum of FCF_i times the
\* discount factor of year i, the present value of the terminal value is the
\* terminal value times the discount factor of the final year, enterprise
\* value is their sum and equity value is enterprise value + cash - debt
\* (missing cash or debt counting 0) - and each returned field is the float
\* of its Decimal value; so the returned floats satisfy the identities up to
\* the rounding of the three (two) floats involved.
C10_ResultIdentities ==
    DcfReturned =>
        LET a == dcf_args
            r == dcf_result
            n == Len(a.forecast_fcf)
            dfs == r.detail.discount_factors
            pvf == SumSeq([i \in 1..n |-> a.forecast_fcf[i] * dfs[i]]) * DecScale
            pvtv == TerminalValue(a) * dfs[n]
            ev == pvf + pvtv
            net == (r.detail.cash - r.detail.debt) * ValScale
        IN  /\ r.pv_forecast_fcf = Float(pvf)
            /\ r.pv_terminal_value = Float(pvtv)
            /\ r.enterprise_value = Float(ev)
            /\ r.equity_value = Float(ev + net)
            /\ r.detail.cash = GetOr(a.cash, 0)
            /\ r.detail.debt = GetOr(a.total_debt, 0)
            /\ Abs(r.enterprise_value - (r.pv_forecast_fcf + r.pv_terminal_value))
                   <= 3 * HalfUlp(MaxAbs(ev, MaxAbs(pvf, pvtv)))
            /\ Abs(r.equity_value - (r.enterprise_value + net))
                   <= 2 * HalfUlp(MaxAbs(ev, ev + net))

\* a three-year forecast with cash 7 and debt 3 whose returned enterprise
\* value is not the sum of the two returned present values
C10_Witness ==
    /\ DcfReturned
    /\ Len(dcf_args.forecast_fcf) = 3
    /\ dcf_args.cash = {7}
    /\ dcf_args.total_debt = {3}
    /\ dcf_result.terminal_value_method = "gordon_growth"
    /\ dcf_result.pv_terminal_value > 0
    /\ dcf_result.enterprise_value
           # dcf_result.pv_forecast_fcf + dcf_result.pv_terminal_value

-----------------------------------------------------------------------------
(* Properties of sensitivity_analysis                                      *)

\* a sensitivity_analysis call has ended
SensitivityCalled ==
    /\ returned # NoResult
    /\ call.fn = "sensitivity_analysis"

\* the table of the call has one row per wacc and one column per growth rate
IsRectangular ==
    /\ returned.kind = "dict"
    /\ Len(returned.sensitivity_table) = Len(call.wacc_range)
    /\ \A i \in 1..Len(call.wacc_range) :
           Len(returned.sensitivity_table[i]) = Len(call.growth_range)

\* the equity value calculate_dcf returns for the pair (mid-year convention,
\* Gordon growth, the call's cash flows and historical financials)
EquityFor(wacc, growth) ==
    CalculateDcfResult(SensitivityDcfCall(call, wacc, growth)).equity_value

-----------------------------------------------------------------------------
(* Properties of the concluded value                                       *)

\* a call that concludes a value from the method values has ended
ConcludeCalled ==
    /\ returned # NoResult
    /\ call.fn \in {"run_valuation_calculation", "_create_valuation_sheet"}

-----------------------------------------------------------------------------
(* Properties of the WACC calculator                                       *)

\* a calculate_wacc call has returned
WaccCalled ==
    /\ returned # NoResult
    /\ call.fn = "calculate_wacc"

\* the scenario rf 0.045, erp 0.06, beta 1.2, size 0.02, specific 0.01,
\* kd 0.06, tax 0.25, wd 0.3, we 0.7
IsWaccScenario ==
    /\ call.risk_free_rate = 45 /\ call.equity_risk_premium = 60
    /\ call.beta = 1200 /\ call.size_premium = {20}
    /\ call.company_specific_premium = {10}
    /\ call.cost_of_debt = 60 /\ call.tax_rate = 250
    /\ call.debt_weight = 300 /\ call.equity_weight = 700

\* C13: calculate_wacc returns cost_of_equity = rf + beta * erp + size
\* premium + company-specific premium (a missing premium counting 0),
\* after_tax_cost_of_debt = kd * (1 - tax) and wacc = we * cost_of_equity +
\* wd * after_tax_cost_of_debt, each the float of the exact value; with
\* we = 1, wd = 0 the returned wacc is exactly the returned cost_of_equity,
\* with we = 0, wd = 1 exactly the returned after_tax_cost_of_debt, and the
\* scenario gives 0.147, 0.045 and 0.1164.
C13_WaccFormulas ==
    WaccCalled =>
        LET size == IF call.size_premium = {} THEN 0 ELSE Some(call.size_premium)
            spec == IF call.company_specific_premium = {} THEN 0
                    ELSE Some(call.company_specific_premium)
            ke == 1000 * (call.risk_free_rate + size + spec)
                    + call.beta * call.equity_risk_premium
            kd == call.cost_of_debt * (1000 - call.tax_rate)
        IN  /\ returned.cost_of_equity = Float(ke)
            /\ returned.after_tax_cost_of_debt = Float(kd)
            /\ returned.wacc = Float(call.equity_weight * ke + call.debt_weight * kd)
            /\ (call.equity_weight = 1000 /\ call.debt_weight = 0)
                   => returned.wacc = 1000 * returned.cost_of_equity
            /\ (call.equity_weight = 0 /\ call.debt_weight = 1000)
                   => returned.wacc = 1000 * returned.after_tax_cost_of_debt
            /\ IsWaccScenario =>
                   /\ returned.cost_of_equity = 147000
                   /\ returned.after_tax_cost_of_debt = 45000
                   /\ returned.wacc = 116400000

\* the scenario has been computed
C13_Witness ==
    /\ WaccCalled
    /\ IsWaccScenario
    /\ returned.wacc = 116400000

\* a calculate_unlevered_beta call made on the result of calculate_levered_beta
\* has returned
RoundTripDone ==
    /\ returned # NoResult
    /\ call.fn = "calculate_unlevered_beta"
    /\ call.levered_from # {}

\* the exact levered beta bU * (1 + (1 - T) * D/E) is a whole number of
\* 1/BetaScale that the float holds without rounding
LeveredIsExact(bu, de, t) ==
    /\ (bu * (1000 + (100 - t) * de)) % 1000 = 0
    /\ Float((bu * (1000 + (100 - t) * de)) \div 1000)
           = (bu * (1000 + (100 - t) * de)) \div 1000

\* C14 as stated: unlevering the levered beta with the same D/E and T returns
\* the original beta.
C14_AsStated ==
    RoundTripDone => returned.value = Some(call.levered_from)

\* C14 amended: calculate_levered_beta returns the float of
\* bU * (1 + (1 - T) * D/E) and calculate_unlevered_beta the float of
\* bL / (1 + (1 - T) * D/E); unlevering the levered beta with the same D/E
\* and T returns the original beta up to the rounding of the two floats
\* (the rounding of the levered beta plus that of the result), and exactly
\* the original beta whenever the levered beta needs no rounding.
C14_BetaRoundTrip ==
    /\ (returned # NoResult /\ call.fn = "calculate_levered_beta") =>
           LET n == call.unlevered_beta
                      * (1000 + (100 - call.tax_rate) * call.debt_to_equity)
           IN  \E q \in {n \div 1000, n \div 1000 + 1} :
                   /\ 2 * Abs(1000 * q - n) <= 1000
                   /\ returned.value = Float(q)
    /\ (returned # NoResult /\ call.fn = "calculate_unlevered_beta") =>
           LET d == 1000 + (100 - call.tax_rate) * call.debt_to_equity
               n == call.levered_beta * 1000
           IN  \E q \in {n \div d, n \div d + 1} :
                   /\ 2 * Abs(q * d - n) <= d
                   /\ returned.value = Float(q)
    /\ RoundTripDone =>
           LET b == Some(call.levered_from)
           IN  /\ Abs(returned.value - b)
                      <= HalfUlp(call.levered_beta) + 1 + HalfUlp(returned.value)
               /\ LeveredIsExact(b, call.debt_to_equity, call.tax_rate)
                      => returned.value = b

\* beta 1.0 levered at D/E 0.5 and tax 0.25 to 1.375 and unlevered back to 1.0
C14_Witness ==
    /\ RoundTripDone
    /\ call.levered_from = {100000}
    /\ call.debt_to_equity = 5
    /\ call.tax_rate = 25
    /\ call.levered_beta = 137500
    /\ returned.value = 100000

-----------------------------------------------------------------------------
(* Properties of calculate_gpcm                                            *)

\* calculate_gpcm has returned its result dict
GpcmReturned ==
    /\ comps_result # NoResult
    /\ comps_args.fn = "calculate_gpcm"
    /\ comps_result.kind = "dict"
    /\ comps_result.error = {}

\* C15 as stated: for every multiple type in the result, the returned
\* adjusted value is the returned indicated value times
\* (1 - liquidity_discount), for the median and for the mean.
C15_AsStated ==
    GpcmReturned =>
        \A t \in DOMAIN comps_result.valuations_by_multiple :
            LET v == comps_result.valuations_by_multiple[t]
                keep == 100 - comps_args.liquidity_discount
            IN  /\ 100 * v.adjusted_value_median = keep * v.indicated_value_median
                /\ 100 * v.adjusted_value_mean = keep * v.indicated_value_mean

\* C15 amended: for every multiple type in the result, the indicated value
\* is the float of subject_metric * multiple and the adjusted value the
\* float of subject_metric * multiple * (1 - liquidity_discount), for the
\* median and for the mean; so liquidity_discount = 0 gives adjusted_value
\* == indicated_value exactly, and any other discount gives adjusted_value
\* = (1 - liquidity_discount) * indicated_value up to the rounding of the
\* two floats.
C15_LiquidityDiscount ==
    GpcmReturned =>
        \A t \in DOMAIN comps_result.valuations_by_multiple :
            LET v == comps_result.valuations_by_multiple[t]
                keep == 100 - comps_args.liquidity_discount
                median == v.subject_metric * v.median_multiple
                mean == v.subject_metric * v.mean_multiple
            IN  /\ v.liquidity_discount = comps_args.liquidity_discount
                /\ v.indicated_value_median = Float(median * 100)
                /\ v.indicated_value_mean = Float(mean * 100)
                /\ v.adjusted_value_median = Float(median * keep)
                /\ v.adjusted_value_mean = Float(mean * keep)
                /\ comps_args.liquidity_discount = 0 =>
                       /\ v.adjusted_value_median = v.indicated_value_median
                       /\ v.adjusted_value_mean = v.indicated_value_mean
                /\ Abs(100 * v.adjusted_value_median - keep * v.indicated_value_median)
                       <= 100 * HalfUlp(Abs(v.adjusted_value_median))
                            + keep * HalfUlp(Abs(v.indicated_value_median))
                /\ Abs(100 * v.adjusted_value_mean - keep * v.indicated_value_mean)
                       <= 100 * HalfUlp(Abs(v.adjusted_value_mean))
                            + keep * HalfUlp(Abs(v.indicated_value_mean))

\* a result with a 25% discount whose adjusted median value is not 0.75 times
\* the returned indicated value, and a type valued
C15_Witness ==
    /\ GpcmReturned
    /\ comps_args.liquidity_discount = 25
    /\ \E t \in DOMAIN comps_result.valuations_by_multiple :
           LET v == comps_result.valuations_by_multiple[t]
           IN  /\ v.indicated_value_median > 0
               /\ 100 * v.adjusted_value_median # 75 * v.indicated_value_median

\* the sum of adjusted_value_median over the multiple types T of the result
RECURSIVE AdjustedMedianSum(_)
AdjustedMedianSum(T) ==
    IF T = {} THEN 0
    ELSE LET t == CHOOSE x \in T : TRUE
         IN  comps_result.valuations_by_multiple[t].adjusted_value_median
               + AdjustedMedianSum(T \ {t})

\* C16: the concluded_value calculate_gpcm returns is the equal-weighted mean
\* of adjusted_value_median over exactly the multiple types present in
\* valuations_by_multiple, and 0 when there is none; when types are present,
\* every subject metric and every comparable multiple is positive and the
\* liquidity discount is below 1, it is strictly positive.
C16_ConcludedValue ==
    GpcmReturned =>
        LET by_multiple == comps_result.valuations_by_multiple
            T == DOMAIN by_multiple
            n == Cardinality(T)
            total == AdjustedMedianSum(T)
        IN  /\ T = {} => comps_result.concluded_value = 0
            /\ T # {} =>
                   \E q \in {total \div n, total \div n + 1} :
                       /\ 2 * Abs(q * n - total) <= n
                       /\ comps_result.concluded_value = Float(q)
            /\ (/\ T # {}
                /\ comps_args.liquidity_discount < 100
                /\ \A t \in T :
                       /\ by_multiple[t].subject_metric > 0
                       /\ \A i \in 1..Len(by_multiple[t].comparable_multiples) :
                              by_multiple[t].comparable_multiples[i] > 0)
                   => comps_result.concluded_value > 0

\* two multiple types valued at different amounts under a 25% discount: the
\* concluded value lies strictly between the two adjusted values
C16_Witness ==
    /\ GpcmReturned
    /\ comps_args.liquidity_discount = 25
    /\ DOMAIN comps_result.valuations_by_multiple = {"EV/Revenue", "EV/EBITDA"}
    /\ LET rev == comps_result.valuations_by_multiple["EV/Revenue"].adjusted_value_median
           ebitda == comps_result.valuations_by_multiple["EV/EBITDA"].adjusted_value_median
       IN  /\ ebitda > 0
           /\ ebitda < comps_result.concluded_value
           /\ comps_result.concluded_value < rev

-----------------------------------------------------------------------------
(* Properties of _calculate_multiples                                      *)

\* _calculate_multiples of GPCMValuation has returned for one of its four types
GpcmMultiplesCalled ==
    /\ returned # NoResult
    /\ call.fn = "GPCMValuation._calculate_multiples"
    /\ call.multiple_type \in {"EV/Revenue", "EV/EBITDA", "P/E", "P/B"}

\* the metric key the multiple type divides / divides by (GPCM)
NumeratorKey(type) ==
    IF type \in {"EV/Revenue", "EV/EBITDA"} THEN "enterprise_value" ELSE "market_cap"

DenominatorKey(type) ==
    CASE type = "EV/Revenue" -> "revenue"
      [] type = "EV/EBITDA" -> "ebitda"
      [] type = "P/E" -> "net_income"
      [] type = "P/B" -> "book_value"
      [] type = "EV/Gross Profit" -> "gross_profit"

\* the ratios numerator / denominator of the comparables that contribute, in
\* list order; pairs[i] is {} for a comparable that is skipped and
\* {<<numerator, denominator>>} for one that contributes
RatiosOf(pairs) ==
    LET used == SelectSeq(pairs, LAMBDA pair : pair # {})
    IN  [i \in 1..Len(used) |-> FloatDiv(Some(used[i])[1], Some(used[i])[2])]

GtmMultiplesCalled ==
    /\ returned # NoResult
    /\ call.fn = "GTMValuation._calculate_multiples"
    /\ call.multiple_type \in {"EV/Revenue", "EV/EBITDA", "EV/Gross Profit"}

\* calculate_gtm has returned its result dict
GtmReturned ==
    /\ comps_result # NoResult
    /\ comps_args.fn = "calculate_gtm"
    /\ comps_result.kind = "dict"
    /\ comps_result.error = {}

\* the metric read after the first one for the numerator (key "") and the
\* denominator of a type; "" when there is none
FallbackKey(key) ==
    CASE key = "enterprise_value" -> "transaction_value"
      [] key = "revenue" -> "ltm_revenue"
      [] key = "ebitda" -> "ltm_ebitda"
      [] OTHER -> ""

\* the metric `key` if present, else its fallback: {} when neither exists
IfPresent(m, key) ==
    IF key \in DOMAIN m THEN {m[key]}
    ELSE IF FallbackKey(key) \in DOMAIN m THEN {m[FallbackKey(key)]}
    ELSE {}

\* the metric `key` if present and not zero, else its fallback
IfNotZero(m, key) ==
    IF key \in DOMAIN m /\ m[key] # 0 THEN {m[key]}
    ELSE IF FallbackKey(key) \in DOMAIN m THEN {m[FallbackKey(key)]}
    ELSE {}

\* the sum of indicated_value_median over the multiple types T of the result
RECURSIVE IndicatedMedianSum(_)
IndicatedMedianSum(T) ==
    IF T = {} THEN 0
    ELSE LET t == CHOOSE x \in T : TRUE
         IN  comps_result.valuations_by_multiple[t].indicated_value_median
               + IndicatedMedianSum(T \ {t})

\* no liquidity discount: each indicated value is the float of subject metric
\* times multiple, and concluded_value is the mean of the median-based
\* indicated values of the types present (0 when there is none)
GtmConcludedUndiscounted ==
    LET by_multiple == comps_result.valuations_by_multiple
        T == DOMAIN by_multiple
        n == Cardinality(T)
        total == IndicatedMedianSum(T)
    IN  /\ \A t \in T :
               /\ by_multiple[t].indicated_value_median
                      = Float(by_multiple[t].subject_metric
                                * by_multiple[t].median_multiple * 100)
               /\ "adjusted_value_median" \notin DOMAIN by_multiple[t]
        /\ T = {} => comps_result.concluded_value = 0
        /\ T # {} =>
               \E q \in {total \div n, total \div n + 1} :
                   /\ 2 * Abs(q * n - total) <= n
                   /\ comps_result.concluded_value = Float(q)

\* C18 as stated: the numerator is enterprise_value if present, else
\* transaction_value; revenue falls back to ltm_revenue and ebitda to
\* ltm_ebitda when absent; a transaction contributes exactly when the
\* resolved numerator exists and the resolved denominator is strictly
\* positive; calculate_gtm applies no liquidity discount.
C18_AsStated ==
    /\ GtmMultiplesCalled =>
           LET den == DenominatorKey(call.multiple_type)
           IN  returned.value =
                   RatiosOf([i \in 1..Len(call.comparables) |->
                                LET ev == IfPresent(call.comparables[i].metrics,
                                                    "enterprise_value")
                                    d == IfPresent(call.comparables[i].metrics, den)
                                IN  IF ev # {} /\ d # {} /\ Some(d) > 0
                                    THEN {<<Some(ev), Some(d)>>}
                                    ELSE {}])
    /\ GtmReturned => GtmConcludedUndiscounted

\* C18 amended: the numerator is enterprise_value if present and not zero,
\* else transaction_value; revenue falls back to ltm_revenue and ebitda to
\* ltm_ebitda when absent or zero (gross_profit has no fallback); a
\* transaction contributes exactly when the resolved numerator exists and
\* is not zero and the resolved denominator is strictly positive;
\* calculate_gtm applies no liquidity discount (concluded_value is the mean
\* of the median-based indicated values).
C18_GtmMultiples ==
    /\ GtmMultiplesCalled =>
           LET den == DenominatorKey(call.multiple_type)
           IN  returned.value =
                   RatiosOf([i \in 1..Len(call.comparables) |->
                                LET ev == IfNotZero(call.comparables[i].metrics,
                                                    "enterprise_value")
                                    d == IfNotZero(call.comparables[i].metrics, den)
                                IN  IF ev # {} /\ Some(ev) # 0 /\ d # {} /\ Some(d) > 0
                                    THEN {<<Some(ev), Some(d)>>}
                                    ELSE {}])
    /\ GtmReturned => GtmConcludedUndiscounted

\* EV/Revenue over a transaction with transaction_value 9 and ltm_revenue 3,
\* neither enterprise_value nor revenue: the ratio 3 is in the list
C18_Witness ==
    /\ GtmMultiplesCalled
    /\ call.multiple_type = "EV/Revenue"
    /\ Len(call.comparables) = 2
    /\ call.comparables[1].metrics = [enterprise_value |-> 12, revenue |-> 3]
    /\ call.comparables[2].metrics
           = [transaction_value |-> 9, ltm_revenue |-> 3, ltm_ebitda |-> 2, gross_profit |-> 3]
    /\ returned.value = <<4 * MulScale, 3 * MulScale>>

\* filter_transactions has returned
FilterCalled ==
    /\ returned # NoResult
    /\ call.fn = "GTMValuation.filter_transactions"

\* the transaction satisfies every supplied filter: its industry code is one
\* of the codes, its size lies within the size bounds and its date within
\* the date bounds
SatisfiesFilters(txn, filters) ==
    /\ "industry_codes" \in DOMAIN filters =>
           /\ "industry_code" \in DOMAIN txn
           /\ txn.industry_code \in filters.industry_codes
    /\ "min_size" \in DOMAIN filters =>
           /\ "transaction_value" \in DOMAIN txn.metrics
           /\ txn.metrics.transaction_value >= filters.min_size
    /\ "max_size" \in DOMAIN filters =>
           /\ "transaction_value" \in DOMAIN txn.metrics
           /\ txn.metrics.transaction_value <= filters.max_size
    /\ "min_date" \in DOMAIN filters => txn.date >= filters.min_date
    /\ "max_date" \in DOMAIN filters => txn.date <= filters.max_date

\* C19: filter_transactions returns exactly the input transactions, in input
\* order, that satisfy every supplied filter among industry codes, minimum
\* size, maximum size and date bounds; an omitted filter excludes nothing,
\* and with no filters the input list is returned unchanged.
C19_AsStated ==
    FilterCalled =>
        /\ returned.value
               = SelectSeq(call.transactions,
                           LAMBDA txn : SatisfiesFilters(txn, call.filters))
        /\ DOMAIN call.filters = {} => returned.value = call.transactions

\* one of validate_income_statement, validate_balance_sheet and
\* validate_cash_flow has returned its issues
ValidateCalled ==
    /\ returned # NoResult
    /\ call.fn \in {"validate_income_statement", "validate_balance_sheet",
                    "validate_cash_flow"}

\* the required codes of the statement type the called function validates
RequiredCodes ==
    CASE call.fn = "validate_income_statement" -> {"REV_001", "COGS_001", "NI_001"}
      [] call.fn = "validate_balance_sheet" ->
             {"ASSET_CURR_001", "LIAB_CURR_001", "EQUITY_001"}
      [] OTHER -> {"CF_OP_001", "CF_INV_001", "CF_FIN_001"}

\* the positions of the MISSING_CRITICAL_ITEM issues in the returned list
MissingIssues ==
    {i \in 1..Len(returned.value) :
        returned.value[i].rule_code = "MISSING_CRITICAL_ITEM"}

\* C20: validate_* emits exactly one MISSING_CRITICAL_ITEM error issue per
\* required code of its statement type that is absent from the statement's
\* line items and none for a code that is present, so the number of such
\* issues equals the number of missing required codes.
C20_MissingItems ==
    ValidateCalled =>
        LET present == {call.normalized_data.line_items[i].code :
                           i \in 1..Len(call.normalized_data.line_items)}
            about(code) == {i \in MissingIssues :
                               returned.value[i].affected_items = <<code>>}
        IN  /\ \A i \in MissingIssues :
                   /\ returned.value[i].severity = "error"
                   /\ \E code \in RequiredCodes :
                          returned.value[i].affected_items = <<code>>
            /\ \A code \in RequiredCodes :
                   Cardinality(about(code)) = IF code \in present THEN 0 ELSE 1
            /\ Cardinality(MissingIssues) = Cardinality(RequiredCodes \ present)

\* an income statement with revenue that lacks COGS_001 and NI_001 was
\* validated: two issues, one for each
C20_Witness ==
    /\ ValidateCalled
    /\ call.fn = "validate_income_statement"
    /\ {call.normalized_data.line_items[i].code :
           i \in 1..Len(call.normalized_data.line_items)} = {"REV_001", "GP_001"}
    /\ Cardinality(MissingIssues) = 2

\* the positions of the returned issues with one of the rule codes
IssuesWith(rule_codes) ==
    {i \in 1..Len(returned.value) : returned.value[i].rule_code \in rule_codes}

\* the value per period of the grouped code of the validated statement, 0
\* when no item was mapped to it
GroupedValue(code, p) ==
    LET items == call.normalized_data.line_items
        at == {i \in 1..Len(items) : items[i].code = code}
    IN  IF at = {} THEN 0 ELSE items[CHOOSE i \in at : TRUE].values[p]

\* validate_income_statement has returned its issues
IncomeValidated ==
    /\ returned # NoResult
    /\ call.fn = "validate_income_statement"

\* validate_balance_sheet has returned its issues
BalanceValidated ==
    /\ returned # NoResult
    /\ call.fn = "validate_balance_sheet"

C22_NegativeValues ==
    LET Holds(code, rule_code) ==
            \A p \in PeriodSet :
                LET at == {i \in IssuesWith({rule_code}) : returned.value[i].period = p}
                IN  /\ Cardinality(at) = IF GroupedValue(code, p) < 0 THEN 1 ELSE 0
                    /\ \A i \in at : /\ returned.value[i].severity = "error"
                                     /\ returned.value[i].affected_items = <<code>>
    IN  /\ IncomeValidated => Holds("REV_001", "NEG_REVENUE")
        /\ BalanceValidated => Holds("ASSET_CURR_004", "NEGATIVE_INVENTORY")

\* inventory grouped from three items is 0 in the first period and 0.220 in
\* the second: no inventory issue
C22_Witness ==
    /\ BalanceValidated
    /\ Len(call.normalized_data.line_items) = 1
    /\ GroupedValue("ASSET_CURR_004", "2021") = 0
    /\ GroupedValue("ASSET_CURR_004", "2022") = 220
    /\ IssuesWith({"NEGATIVE_INVENTORY"}) = {}

\* C23: the BS_IMBALANCE issues of validate_balance_sheet are in one-to-one
\* correspondence with the statement's balance_sheet_equation discrepancies,
\* each carrying the same period and difference with severity error; an
\* empty reconciliation list yields no BS_IMBALANCE issue.
C23_Imbalance ==
    BalanceValidated =>
        LET recon == call.normalized_data.reconciliation
            found == {i \in 1..Len(recon) : recon[i].rule = "balance_sheet_equation"}
            issues == IssuesWith({"BS_IMBALANCE"})
        IN  /\ \E f \in [issues -> found] :
                   /\ \A i, j \in issues : f[i] = f[j] => i = j
                   /\ \A d \in found : \E i \in issues : f[i] = d
                   /\ \A i \in issues :
                          /\ returned.value[i].period = recon[f[i]].period
                          /\ returned.value[i].difference = recon[f[i]].difference
                          /\ returned.value[i].severity = "error"
            /\ recon = <<>> => issues = {}

\* a balance sheet out of balance in both periods, by different amounts, was
\* validated
C23_Witness ==
    /\ BalanceValidated
    /\ Len(call.normalized_data.reconciliation) = 2
    /\ call.normalized_data.reconciliation[1].difference
           # call.normalized_data.reconciliation[2].difference
    /\ Cardinality(IssuesWith({"BS_IMBALANCE"})) = 2

\* the requests of run_valuation are being served
RunsServed == db.tables = {"valuation_runs"}

\* C25: under any interleaving of concurrent run_valuation requests, no two
\* persisted runs of an engagement share a run_number, the first run of an
\* engagement gets 1, and every newly persisted run has a run_number greater
\* than that of every run persisted before it for that engagement.
C25_RunNumbers ==
    RunsServed =>
        \A j \in 1..Len(db.runs) :
            LET earlier == {i \in 1..(j - 1) :
                               db.runs[i].engagement_id = db.runs[j].engagement_id}
            IN  /\ \A i \in earlier : db.runs[i].run_number < db.runs[j].run_number
                /\ earlier = {} => db.runs[j].run_number = 1

\* two requests for the same engagement both read the table before either
\* committed: one run was persisted with number 1, the other request failed
C25_Witness ==
    /\ RunsServed
    /\ \E a, b \in 1..MaxRequests :
           /\ a # b
           /\ requests[a].engagement_id = requests[b].engagement_id
           /\ requests[a].run_number = 1 /\ requests[b].run_number = 1
           /\ requests[a].pc = "done" /\ requests[a].status_code = 202
           /\ requests[b].pc = "done" /\ requests[b].status_code = 500
           /\ Len(RunsOf(db.runs, requests[a].engagement_id)) = 1

\* the requests of the validation endpoints are being served
IssuesServed == db.tables = {"validation_issues"}

\* the rank of a severity in the display order error < warning < info
SeverityRank(severity) ==
    CASE severity = "error" -> 1
      [] severity = "warning" -> 2
      [] severity = "info" -> 3

\* C24: validation issues are listed by the severity rank error < warning <
\* info (every error before every warning, every warning before every info),
\* ties within a severity most-recently-created first, whatever the enum
\* declaration order or the alphabetical order of the severity names.
C24_AsStated ==
    IssuesServed =>
        \A r \in 1..MaxRequests :
            (requests[r].endpoint = "list_validation_issues" /\ requests[r].pc = "done"
                 /\ requests[r].status_code = 200) =>
                LET listed == requests[r].response.issues
                IN  \A a, b \in 1..Len(listed) :
                        a < b =>
                            \/ SeverityRank(listed[a].severity)
                                   < SeverityRank(listed[b].severity)
                            \/ /\ listed[a].severity = listed[b].severity
                               /\ listed[a].created_at >= listed[b].created_at

\* C27: an issue is unresolved at creation and is resolved at most once: in
\* every sequence or interleaving of accept_suggestion and
\* override_suggestion requests on the same issue exactly the first one
\* succeeds and writes the resolution; every later request is rejected with
\* 'Issue already resolved' and leaves the issue unchanged.
C27_AsStated ==
    IssuesServed =>
        /\ \A i \in DOMAIN db.issues :
               /\ db.resolutions[i] <= 1
               /\ db.issues[i].is_resolved <=> db.resolutions[i] = 1
        /\ \A a, b \in 1..MaxRequests :
               (a # b /\ requests[a].issue_id = requests[b].issue_id
                      /\ requests[a].endpoint # "list_validation_issues"
                      /\ requests[b].endpoint # "list_validation_issues"
                      /\ requests[a].pc = "done" /\ requests[b].pc = "done")
                   => ~(requests[a].status_code = 200 /\ requests[b].status_code = 200)

\* calculate_cca has returned or raised
CcaCalled ==
    /\ returned # NoResult
    /\ call.fn = "calculate_cca"

\* the metric has a history with at least one year
HasHistory(metric) ==
    /\ metric \in DOMAIN call.financial_data
    /\ DOMAIN call.financial_data[metric] # {}

\* the value of the metric in the year, 0 when it has none
ValueIn(metric, year) ==
    IF metric \in DOMAIN call.financial_data /\ year \in DOMAIN call.financial_data[metric]
    THEN call.financial_data[metric][year]
    ELSE 0

\* C26: calculate_cca uses the (min, median, max) EBITDA multiples of the
\* assumptions; the EBITDA used is the latest-year EBITDA, or 20% of the
\* latest-year revenue when EBITDA history is absent, and the call raises
\* when neither history exists; for each k, equity_value_k = EBITDA *
\* multiple_k + cash - debt of that year (as floats), and the result is
\* this three-value range, not a single concluded value.
C26_CcaRange ==
    CcaCalled =>
        IF ~HasHistory("ebitda") /\ ~HasHistory("revenue")
        THEN returned.kind = "raised"
        ELSE LET metric == IF HasHistory("ebitda") THEN "ebitda" ELSE "revenue"
                 years == DOMAIN call.financial_data[metric]
                 year == CHOOSE y \in years : \A z \in years : z <= y
                 ebitda == IF metric = "ebitda" THEN call.financial_data.ebitda[year]
                           ELSE Float(RoundHalfEven(call.financial_data.revenue[year] * 20, 100))
                 Given(key, default) ==
                     IF key \in DOMAIN call.assumptions THEN call.assumptions[key]
                     ELSE default
                 Equity(multiple) ==
                     Float(Float(Float(RoundHalfEven(ebitda * multiple, CcaMultipleScale))
                                   + ValueIn("cash", year))
                             - ValueIn("debt", year))
             IN  /\ returned.kind = "dict"
                 /\ returned.ebitda_used = ebitda
                 /\ returned.ebitda_year = year
                 /\ returned.equity_value_min = Equity(Given("ebitda_multiple_min", 50))
                 /\ returned.equity_value_median
                        = Equity(Given("ebitda_multiple_median", 70))
                 /\ returned.equity_value_max = Equity(Given("ebitda_multiple_max", 90))
                 /\ "concluded_value" \notin DOMAIN returned
                 /\ "equity_value" \notin DOMAIN returned

\* no EBITDA history, revenue 1001.25 in 2024, debt 10.00 in 2024 and
\* multiples 4.0 / 6.5 / 8.5: EBITDA 200.2 (a float), equity 790.80 at the
\* minimum multiple
C26_Witness ==
    /\ CcaCalled
    /\ ~HasHistory("ebitda")
    /\ HasHistory("revenue") /\ 2024 \in DOMAIN call.financial_data.revenue
    /\ "ebitda_multiple_min" \in DOMAIN call.assumptions
    /\ returned.kind = "dict"
    /\ returned.ebitda_year = 2024
    /\ returned.ebitda_used = 20020
    /\ returned.debt = 1000
    /\ returned.equity_value_min = 79080

\* the result is a failure: an exception or an error dict
CompsFailed(result) == result.kind = "raised" \/ result.error # {}

\* C28: for every subject-metrics input, every record list carrying only
\* enterprise_value, revenue and ebitda metrics, and every requested subset
\* of {EV/Revenue, EV/EBITDA}, calculate_gtm and calculate_gpcm with
\* liquidity_discount = 0 either both fail or both return the same set of
\* multiple types, the same median and mean multiples per type, and the same
\* concluded_value.
C28_AsStated ==
    (/\ comps_result # NoResult
     /\ comps_args.fn = "calculate_gtm"
     /\ \A i \in 1..Len(comps_args.comparables) :
            DOMAIN comps_args.comparables[i].metrics
                \subseteq {"enterprise_value", "revenue", "ebitda"}
     /\ \A i \in 1..Len(comps_args.multiples_to_use) :
            comps_args.multiples_to_use[i] \in {"EV/Revenue", "EV/EBITDA"})
        => LET gtm == comps_result
               gpcm == CalculateGpcmResult([comps_args EXCEPT !.fn = "calculate_gpcm",
                                                              !.liquidity_discount = 0])
           IN  \/ CompsFailed(gtm) /\ CompsFailed(gpcm)
               \/ /\ ~CompsFailed(gtm) /\ ~CompsFailed(gpcm)
                  /\ DOMAIN gtm.valuations_by_multiple = DOMAIN gpcm.valuations_by_multiple
                  /\ \A t \in DOMAIN gtm.valuations_by_multiple :
                         /\ gtm.valuations_by_multiple[t].median_multiple
                                = gpcm.valuations_by_multiple[t].median_multiple
                         /\ gtm.valuations_by_multiple[t].mean_multiple
                                = gpcm.valuations_by_multiple[t].mean_multiple
                  /\ gtm.concluded_value = gpcm.concluded_value

\* the sum, for one period, of the grouped values of the validated
\* statement over the line items whose code is in the set
RECURSIVE LineSumFrom(_, _, _)
LineSumFrom(codes, p, i) ==
    LET items == call.normalized_data.line_items
    IN  IF i > Len(items) THEN 0
        ELSE (IF items[i].code \in codes THEN items[i].values[p] ELSE 0)
             + LineSumFrom(codes, p, i + 1)

LineSum(codes, p) == LineSumFrom(codes, p, 1)

\* the codes the balance sheet subtotals are built from
NamedAssetCodes == {"ASSET_CURR_001", "ASSET_CURR_002", "ASSET_CURR_004", "ASSET_FA_008"}
NamedLiabCodes == {"LIAB_CURR_001", "LIAB_CURR_003", "LIAB_LT_001"}
NamedEquityCodes == {"EQUITY_001", "EQUITY_004"}

\* every grouped asset, liability and equity code of the validated statement
\* is one the subtotals are built from
OnlyNamedCodes ==
    \A i \in 1..Len(call.normalized_data.line_items) :
        LET code == call.normalized_data.line_items[i].code
        IN  code \in AssetCodes \cup LiabCodes \cup EquityCodes
                => code \in NamedAssetCodes \cup NamedLiabCodes \cup NamedEquityCodes

\* the periods for which a NEGATIVE_EQUITY warning was returned
NegativeEquityPeriods ==
    {returned.value[i].period : i \in IssuesWith({"NEGATIVE_EQUITY"})}

\* C29 as stated: in every period the subtotals total_assets,
\* total_liabilities and total_equity equal the sums over all grouped
\* ASSET_-, LIAB_- and EQUITY_-prefixed codes; an empty reconciliation list
\* means total_assets = total_liabilities + total_equity within 0.01 in every
\* period; NEGATIVE_EQUITY is emitted exactly for the periods where the sum
\* of all equity codes is negative.
C29_AsStated ==
    BalanceValidated =>
        LET calc == call.normalized_data.calculations
        IN  /\ \A p \in PeriodSet :
                   /\ calc.total_assets[p] = LineSum(AssetCodes, p)
                   /\ calc.total_liabilities[p] = LineSum(LiabCodes, p)
                   /\ calc.total_equity[p] = LineSum(EquityCodes, p)
            /\ call.normalized_data.reconciliation = <<>> =>
                   \A p \in PeriodSet :
                       Abs(calc.total_assets[p]
                             - (calc.total_liabilities[p] + calc.total_equity[p]))
                           <= Tolerance
            /\ NegativeEquityPeriods = {p \in PeriodSet : LineSum(EquityCodes, p) < 0}
            /\ Cardinality(IssuesWith({"NEGATIVE_EQUITY"}))
                   = Cardinality(NegativeEquityPeriods)

\* C29, amended: the subtotals equal the sums over the grouped codes they are
\* built from in every period; when no other ASSET_-, LIAB_- or
\* EQUITY_-prefixed code is grouped these are the sums the reconciliation
\* uses, and then an empty reconciliation list means total_assets =
\* total_liabilities + total_equity within 0.01 in every period; exactly one
\* NEGATIVE_EQUITY warning is emitted for each period where EQUITY_001 +
\* EQUITY_004 is negative, and none for any other period.
C29_NamedCodes ==
    BalanceValidated =>
        LET calc == call.normalized_data.calculations
        IN  /\ \A p \in PeriodSet :
                   /\ calc.total_assets[p] = LineSum(NamedAssetCodes, p)
                   /\ calc.total_liabilities[p] = LineSum(NamedLiabCodes, p)
                   /\ calc.total_equity[p] = LineSum(NamedEquityCodes, p)
            /\ OnlyNamedCodes =>
                   /\ \A p \in PeriodSet :
                          /\ calc.total_assets[p] = LineSum(AssetCodes, p)
                          /\ calc.total_liabilities[p] = LineSum(LiabCodes, p)
                          /\ calc.total_equity[p] = LineSum(EquityCodes, p)
                   /\ call.normalized_data.reconciliation = <<>> =>
                          \A p \in PeriodSet :
                              Abs(calc.total_assets[p]
                                    - (calc.total_liabilities[p] + calc.total_equity[p]))
                                  <= Tolerance
            /\ NegativeEquityPeriods
                   = {p \in PeriodSet : LineSum(NamedEquityCodes, p) < 0}
            /\ Cardinality(IssuesWith({"NEGATIVE_EQUITY"}))
                   = Cardinality(NegativeEquityPeriods)

\* a balance sheet of named codes only that reconciles, with assets and
\* equity negative in the first period and positive in the second, was
\* validated and got its one NEGATIVE_EQUITY warning
C29_Witness ==
    /\ BalanceValidated
    /\ OnlyNamedCodes
    /\ call.normalized_data.reconciliation = <<>>
    /\ LineSum(NamedAssetCodes, Periods[1]) < 0
    /\ LineSum(NamedAssetCodes, Periods[2]) > 0
    /\ NegativeEquityPeriods = {Periods[1]}

-----------------------------------------------------------------------------
(* run_valuation_calculation: the executions of the task for one project,  *)
(* each started by a POST of assumptions_input_view.  The views and the    *)
(* workers run in separate processes, so their database statements         *)
(* interleave; an execution keeps its own copy of the project row.         *)

\* @shared_task(bind=True, max_retries=3)
MaxRetries == 3

\* the rows of core_project, core_valuationresult and the others are kept
TasksServed == db.tables = {"core_project"}

\* DCFEngine.calculate_dcf: raises without a revenue history, and at
\* forecast_fcf[-1] when there is no forecast year; the values it returns
\* otherwise are kept as the inputs they are computed from
DcfEngineResult(financial_data, forecast_years) ==
    LET revenue_history == History(financial_data, "revenue")
    IN  IF DOMAIN revenue_history = {}
        THEN [kind |-> "raised",
              error |-> "Revenue data is required for DCF calculation"]
        ELSE IF forecast_years = 0
        THEN [kind |-> "raised", error |-> "list index out of range"]
        ELSE [kind |-> "dict",
              latest_revenue |-> revenue_history[LatestYear(revenue_history)],
              forecast_years |-> forecast_years]

\* the ebitda multiples the task hands to the engines (the defaults of
\* ValuationAssumptions)
TaskAssumptions ==
    [ebitda_multiple_min |-> 50, ebitda_multiple_median |-> 70,
     ebitda_multiple_max |-> 90]

\* CCAEngine.calculate_cca as the task sees it: it raises without an ebitda
\* and a revenue history (CalculateCcaResult has the values); the values it
\* returns otherwise are kept as the inputs they are computed from
CcaEngineResult(financial_data, assumptions) ==
    LET ebitda_history == History(financial_data, "ebitda")
        revenue_history == History(financial_data, "revenue")
    IN  IF DOMAIN ebitda_history = {} /\ DOMAIN revenue_history = {}
        THEN [kind |-> "raised",
              error |-> "EBITDA or Revenue data required for CCA calculation"]
        ELSE [kind |-> "dict",
              latest_year |-> IF DOMAIN ebitda_history # {}
                              THEN LatestYear(ebitda_history)
                              ELSE LatestYear(revenue_history),
              multiples |-> assumptions]

\* the body of the try block up to the engines' results: the exception
\* raised, or the results of both engines
EnginesOutcome(financial_data, forecast_years) ==
    LET dcf_results == DcfEngineResult(financial_data, forecast_years)
        cca_results == CcaEngineResult(financial_data, TaskAssumptions)
    IN  IF DOMAIN financial_data = {}
        THEN [kind |-> "raised", error |-> "No financial data found for project"]
        ELSE IF dcf_results.kind = "raised" THEN dcf_results
        ELSE IF cca_results.kind = "raised" THEN cca_results
        ELSE [kind |-> "ok", dcf |-> dcf_results, cca |-> cca_results]

\* assumptions_input_view up to the form: the project is read, and the
\* request is redirected unless its status is READY or COMPLETE
CheckProjectReady(r) ==
    /\ TasksServed
    /\ requests[r].pc = "post"
    /\ requests' = [requests EXCEPT ![r].pc =
                        IF db.status \in {"READY", "COMPLETE"} THEN "form"
                        ELSE "redirected"]
    /\ UNCHANGED <<db, normVars, dcfVars, compsVars, callVars>>

\* assumptions_input_view, POST of a valid form: form.save() and
\* run_valuation_calculation.delay(project.id)
SaveAssumptions(r) ==
    /\ TasksServed
    /\ requests[r].pc = "form"
    /\ db' = [db EXCEPT !.forecast_years = requests[r].forecast_years]
    /\ requests' = [requests EXCEPT ![r].pc = "queued"]
    /\ UNCHANGED <<normVars, dcfVars, compsVars, callVars>>

\* run_valuation_calculation: Project.objects.get, status CALCULATING,
\* error_message '', project.save()
StartCalculation(r) ==
    /\ TasksServed
    /\ requests[r].pc = "queued"
    /\ db' = [db EXCEPT !.status = "CALCULATING", !.error_message = ""]
    /\ requests' = [requests EXCEPT ![r].pc = "calculating"]
    /\ UNCHANGED <<normVars, dcfVars, compsVars, callVars>>

\* run_valuation_calculation, from the query of the financial data to
\* result.save(): the financial data and the assumptions are read and the
\* engines run; an exception leads to the except branch, else the row of
\* ValuationResult (get_or_create) gets the engines' values
CalculateAndSave(r) ==
    /\ TasksServed
    /\ requests[r].pc = "calculating"
    /\ LET outcome == EnginesOutcome(db.financial_data, db.forecast_years)
       IN  IF outcome.kind = "raised"
           THEN /\ requests' = [requests EXCEPT ![r].pc = "raised",
                                                ![r].error = outcome.error]
                /\ UNCHANGED db
           ELSE /\ requests' = [requests EXCEPT ![r].pc = "saved"]
                /\ db' = [db EXCEPT !.result =
                              {[dcf |-> outcome.dcf, cca |-> outcome.cca]}]
    /\ UNCHANGED <<normVars, dcfVars, compsVars, callVars>>

\* faulty variant: the project is marked COMPLETE without the result saved
CompleteCalculationUnsaved(r) ==
    /\ TasksServed
    /\ requests[r].pc = "calculating"
    /\ db' = [db EXCEPT !.status = "COMPLETE", !.error_message = ""]
    /\ requests' = [requests EXCEPT ![r].pc = "done"]
    /\ UNCHANGED <<normVars, dcfVars, compsVars, callVars>>

\* run_valuation_calculation: status COMPLETE, project.save() of the
\* execution's copy of the row, and the return
CompleteCalculation(r) ==
    /\ TasksServed
    /\ requests[r].pc = "saved"
    /\ db' = [db EXCEPT !.status = "COMPLETE", !.error_message = ""]
    /\ requests' = [requests EXCEPT ![r].pc = "done"]
    /\ UNCHANGED <<normVars, dcfVars, compsVars, callVars>>

\* the except branch: the project is read again, status ERROR and the
\* message are saved, and self.retry either queues the task again or, after
\* max_retries retries, raises the exception
FailCalculation(r) ==
    /\ TasksServed
    /\ requests[r].pc = "raised"
    /\ db' = [db EXCEPT !.status = "ERROR",
                        !.error_message = requests[r].error]
    /\ requests' = [requests EXCEPT
                       ![r].pc = IF requests[r].retries < MaxRetries THEN "queued"
                                 ELSE "failed",
                       ![r].retries = IF requests[r].retries < MaxRetries
                                      THEN @ + 1 ELSE @]
    /\ UNCHANGED <<normVars, dcfVars, compsVars, callVars>>

\* inputs: the FinancialData rows of the project (none, ebitda only, or
\* revenue with ebitda, cash and debt) and the forecast_years a form posts
\* (the form accepts 0)
ProjectData ==
    {FinancialData({}, {}, {}, {}),
     FinancialData({[y \in {2023} |-> 12345]}, {}, {}, {}),
     FinancialData({[y \in {2022, 2023} |-> IF y = 2022 THEN 10000 ELSE 12345]},
                   {[y \in {2023} |-> 50000]},
                   {[y \in {2023} |-> 3000]}, {[y \in {2023} |-> 4500]})}

PostedForecastYears == {0, 5}

InitTasks ==
    /\ \E financial_data \in ProjectData :
           db = [tables |-> {"core_project"}, status |-> "READY",
                 error_message |-> "", financial_data |-> financial_data,
                 forecast_years |-> 5, result |-> {}]
    /\ requests \in [1..MaxTasks ->
                        {[pc |-> "post", forecast_years |-> n, retries |-> 0,
                          error |-> ""] : n \in PostedForecastYears}]
    /\ call = Idle /\ returned = NoResult
    /\ mapped_data = <<>> /\ op = "none" /\ normalized = NoResult
    /\ dcf_args = Idle /\ dcf_result = NoResult
    /\ comps_args = Idle /\ comps_result = NoResult

NextTasks ==
    \E r \in 1..MaxTasks :
        \/ CheckProjectReady(r)
        \/ SaveAssumptions(r)
        \/ StartCalculation(r)
        \/ CalculateAndSave(r)
        \/ CompleteCalculation(r)
        \/ FailCalculation(r)

\* a view answers its request and a worker runs the task it took from the
\* queue: every step that can be taken is taken in the end
SpecTasks == InitTasks /\ [][NextTasks]_vars /\ WF_vars(NextTasks)

\* the result row holds the values the engines return for the project's data
HoldsEngineValues(result) ==
    /\ result.dcf.kind = "dict"
    /\ result.dcf = DcfEngineResult(db.financial_data, result.dcf.forecast_years)
    /\ result.cca.kind = "dict"
    /\ result.cca = CcaEngineResult(db.financial_data, TaskAssumptions)
    /\ CalculateCcaResult(db.financial_data, TaskAssumptions).kind = "dict"

\* status COMPLETE implies a saved ValuationResult, and no task is retried
\* more than max_retries times
CompleteHasResult ==
    /\ db.status = "COMPLETE" => \E result \in db.result : HoldsEngineValues(result)
    /\ \A r \in 1..MaxTasks : requests[r].retries <= MaxRetries

\* a step of the execution of request r: its first step sets CALCULATING;
\* its last step either sets COMPLETE, after this execution saved a result
\* with the engines' values, or sets ERROR with the message of the
\* exception, and then the task is queued again only if it was retried fewer
\* than max_retries times
ExecutionStep(r) ==
    /\ (requests[r].pc = "queued" /\ requests'[r].pc # "queued")
           => /\ requests'[r].pc = "calculating"
              /\ db'.status = "CALCULATING"
    /\ (requests[r].pc \in {"calculating", "saved", "raised"}
          /\ requests'[r].pc \in {"done", "queued", "failed"})
           => \/ /\ requests'[r].pc = "done"
                 /\ requests[r].pc = "saved"
                 /\ db'.status = "COMPLETE"
                 /\ \E result \in db.result : HoldsEngineValues(result)
              \/ /\ requests'[r].pc \in {"queued", "failed"}
                 /\ db'.status = "ERROR"
                 /\ db'.error_message = requests[r].error
                 /\ db'.error_message # ""
                 /\ requests'[r].pc = "queued"
                        => /\ requests[r].retries < MaxRetries
                           /\ requests'[r].retries = requests[r].retries + 1
                 /\ requests'[r].pc = "failed" => requests[r].retries = MaxRetries
    /\ (requests[r].pc \in {"calculating", "saved", "raised"}
          /\ requests'[r].pc # requests[r].pc)
           => requests'[r].pc \in {"saved", "raised", "done", "queued", "failed"}

\* C30: every execution of run_valuation_calculation sets status CALCULATING
\* and ends with status COMPLETE, reached only after a ValuationResult with
\* the DCF and CCA values was saved, or with status ERROR and the error
\* message recorded; a failed execution is retried at most 3 times; the
\* project never stays in CALCULATING forever; and, also when calculations
\* of the project interleave, status COMPLETE implies that a saved
\* ValuationResult exists.
C30_StatusLifecycle ==
    /\ []CompleteHasResult
    /\ [][\A r \in 1..MaxTasks : ExecutionStep(r)]_vars
    /\ (db.status = "CALCULATING") ~> (db.status # "CALCULATING")

\* two calculations of the project interleaved: one failed for good after
\* its third retry, the other, whose result was saved before, completed
\* after it
C30_Witness ==
    /\ TasksServed
    /\ db.status = "COMPLETE"
    /\ \E result \in db.result : HoldsEngineValues(result)
    /\ \E r1, r2 \in 1..MaxTasks :
           /\ requests[r1].pc = "done"
           /\ requests[r2].pc = "failed"
           /\ requests[r2].retries = MaxRetries

====
